---- MODULE Spec2Model ----
(***************************************************************************)
(* State-machine model of the IR Remote Wizard discovery engine            *)
(* (app/discovery.py), the candidate repository queries it uses            *)
(* (app/database.py) and the request handlers that mutate a wizard session *)
(* (app/main.py).                                                          *)
(*                                                                         *)
(* Conventions                                                             *)
(*  - Python lists are sequences; list indices stored in the state         *)
(*    (cursors, narrowing pool entries) keep Python's 0-based values, so   *)
(*    lst[i] is written At(lst, i).                                        *)
(*  - Python None is the string None.                                      *)
(*  - time.time() is the clock variable now, counted in hours.             *)
(*  - A handler that raises leaves the mutations made before the raise in  *)
(*    place; the exception's name is recorded in last.res.                 *)
(***************************************************************************)
EXTENDS Integers, Sequences, FiniteSets, TLC

None == "None"

\* ------------------------------------------------------------------ bounds
\* Number of "Zeta" devices in the catalogue (each has its own power code).
NumZeta == 2
\* Longest confirmed_buttons list explored.
MaxConfirmed == 1
\* How far a cursor may run past the end of its list.
MaxOvershoot == 0
\* Last clock value explored (hours).
MaxTime == 3

\* ------------------------------------------------------- program constants
\* SESSION_TTL = 2 * 60 * 60 seconds, in hours.
SESSION_TTL == 2

\* ------------------------------------------------------------ list helpers
At(lst, i) == lst[i + 1]

Range(n) == [i \in 1 .. n |-> i - 1]

Elems(lst) == {lst[i] : i \in 1 .. Len(lst)}

Prefix(lst, k) == SubSeq(lst, 1, k)

\* lst.pop(i) for 0 <= i < len(lst)
Pop(lst, i) == SubSeq(lst, 1, i) \o SubSeq(lst, i + 2, Len(lst))

RECURSIVE Concat(_)
Concat(ss) == IF ss = <<>> THEN <<>> ELSE Head(ss) \o Concat(Tail(ss))

\* list(set(ints)): small ints come out of a CPython set in increasing order.
RECURSIVE SortSet(_)
SortSet(S) ==
  IF S = {} THEN <<>>
  ELSE LET m == CHOOSE a \in S : \A b \in S : a <= b
       IN <<m>> \o SortSet(S \ {m})

\* math.ceil(math.log2(n)) for n >= 1
RECURSIVE CeilLog2(_)
CeilLog2(n) == IF n <= 1 THEN 0 ELSE 1 + CeilLog2((n + 1) \div 2)

\* str.lower() on the button names that occur in the catalogue and in
\* BUTTON_CATEGORIES (every other name used is already lower case).
Lower(s) ==
  CASE s = "Power" -> "power" [] s = "Power_on" -> "power_on"
    [] s = "Power_off" -> "power_off" [] s = "POWER" -> "power"
    [] s = "Vol_up" -> "vol_up" [] s = "Vol_down" -> "vol_down"
    [] s = "Mute" -> "mute" [] s = "Ch_up" -> "ch_up"
    [] s = "Ch_down" -> "ch_down" [] s = "Up" -> "up" [] s = "Down" -> "down"
    [] s = "Left" -> "left" [] s = "Right" -> "right" [] s = "Ok" -> "ok"
    [] s = "Back" -> "back" [] s = "Menu" -> "menu" [] s = "Home" -> "home"
    [] s = "Guide" -> "guide" [] s = "Info" -> "info"
    [] s = "Source" -> "source" [] s = "Input" -> "input"
    [] s = "Hdmi1" -> "hdmi1" [] s = "Hdmi2" -> "hdmi2"
    [] s = "Hdmi3" -> "hdmi3" [] s = "Tv" -> "tv" [] s = "Aux" -> "aux"
    [] s = "Play" -> "play" [] s = "Pause" -> "pause" [] s = "Stop" -> "stop"
    [] s = "Ff" -> "ff" [] s = "Rw" -> "rw" [] s = "Rec" -> "rec"
    [] s = "Next" -> "next" [] s = "Prev" -> "prev" [] s = "Zap" -> "zap"
    [] s = "Eject" -> "eject" [] OTHER -> s

\* ------------------------------------------------- the catalogue (SQLite)
\* devices table: ids 1..3 are Acme TVs, 4 is a Bolt TV, the rest Zeta TVs.
Devices == 1 .. (4 + NumZeta)

DevBrand(d) == IF d <= 3 THEN "Acme" ELSE IF d = 4 THEN "Bolt" ELSE "Zeta"

DevType(d) == "TV"

\* Brand names in sorted() order.
BrandOrder == <<"Acme", "Bolt", "Zeta">>

\* Button names of the catalogue in ORDER BY button_name (BINARY) order.
NameOrder == <<"Eject", "Mute", "Power", "Vol_up", "Zap", "power_on">>

Row(d, n, p, a, c) ==
  [device_id |-> d, button_name |-> n, protocol |-> p, address |-> a,
   command |-> c, raw_data |-> None]

\* Addresses of the Zeta power codes, one per device.
ZetaAddress ==
  <<"11 00 00 00", "12 00 00 00", "13 00 00 00", "14 00 00 00",
    "15 00 00 00", "16 00 00 00", "17 00 00 00", "18 00 00 00">>

\* codes table in rowid order.
CodeRows ==
  << Row(1, "Power", "NEC", "04 00 00 00", "08 00 00 00"),
     Row(1, "Vol_up", "NEC", "04 00 00 00", "02 00 00 00"),
     Row(2, "Power", "NEC", "04 00 00 00", "08 00 00 00"),
     Row(2, "Vol_up", "NEC", "04 00 00 00", "02 00 00 00"),
     Row(2, "Mute", "NEC", "04 00 00 00", "09 00 00 00"),
     Row(3, "Power", "NEC", "05 00 00 00", "09 00 00 00"),
     Row(3, "Vol_up", "NEC", "05 00 00 00", "02 00 00 00"),
     Row(4, "power_on", "RC5", "01 00 00 00", "0C 00 00 00"),
     Row(4, "Zap", "RC5", "01 00 00 00", "28 00 00 00"),
     Row(4, "Eject", "RC5", "01 00 00 00", "2D 00 00 00") >>
  \o [i \in 1 .. NumZeta |->
        Row(4 + i, "Power", "NEC", ZetaAddress[i], "01 00 00 00")]

CodeKey(r) == <<r.protocol, r.address, r.command>>

RECURSIVE GroupPower(_, _)
GroupPower(rows, groups) ==
  IF rows = <<>> THEN groups
  ELSE LET r == Head(rows)
           hit == {i \in 1 .. Len(groups) : groups[i].key = CodeKey(r)}
       IN IF hit = {}
          THEN GroupPower(Tail(rows),
                 Append(groups,
                   [key |-> CodeKey(r), protocol |-> r.protocol,
                    address |-> r.address, command |-> r.command,
                    raw_data |-> r.raw_data,
                    device_ids |-> <<r.device_id>>,
                    brandset |-> {DevBrand(r.device_id)}]))
          ELSE LET i == CHOOSE j \in hit : TRUE
               IN GroupPower(Tail(rows),
                    [groups EXCEPT
                       ![i].device_ids = Append(@, r.device_id),
                       ![i].brandset = @ \cup {DevBrand(r.device_id)}])

\* IRDatabase.get_power_codes_grouped
get_power_codes_grouped(device_type, brand) ==
  LET rows == SelectSeq(CodeRows, LAMBDA r :
                /\ DevType(r.device_id) = device_type
                /\ Lower(r.button_name) \in {"power", "power_on"}
                /\ (brand # None /\ brand # "") => DevBrand(r.device_id) = brand)
      groups == GroupPower(rows, <<>>)
  IN [i \in 1 .. Len(groups) |->
        [protocol |-> groups[i].protocol, address |-> groups[i].address,
         command |-> groups[i].command, raw_data |-> groups[i].raw_data,
         device_ids |-> groups[i].device_ids,
         brands |-> SelectSeq(BrandOrder, LAMBDA b : b \in groups[i].brandset)]]

\* Number of rows of the GROUP BY group (name, protocol, address, command)
\* among the devices ids.
GroupCount(ids, r) ==
  Cardinality({i \in 1 .. Len(CodeRows) :
     /\ CodeRows[i].device_id \in ids
     /\ CodeRows[i].button_name = r.button_name
     /\ CodeKey(CodeRows[i]) = CodeKey(r)})

\* IRDatabase.get_unique_buttons_for_devices: per button name, in name order,
\* the first row of the most frequent code (the earliest row wins a tie).
get_unique_buttons_for_devices(device_ids) ==
  LET ids == Elems(device_ids)
      mine(n) == {i \in 1 .. Len(CodeRows) :
                    CodeRows[i].device_id \in ids /\ CodeRows[i].button_name = n}
      best(n) == CHOOSE i \in mine(n) :
                   \A j \in mine(n) :
                     \/ GroupCount(ids, CodeRows[i]) > GroupCount(ids, CodeRows[j])
                     \/ /\ GroupCount(ids, CodeRows[i]) = GroupCount(ids, CodeRows[j])
                        /\ i <= j
      names == SelectSeq(NameOrder, LAMBDA n : mine(n) # {})
  IN [k \in 1 .. Len(names) |->
        LET r == CodeRows[best(names[k])]
        IN [button_name |-> r.button_name, protocol |-> r.protocol,
            address |-> r.address, command |-> r.command,
            raw_data |-> r.raw_data]]

\* ------------------------------------------------ protocol_map.py tables
\* BUTTON_CATEGORIES, in dict order.
BUTTON_CATEGORIES ==
  << [category |-> "Power", names |-> <<"Power", "Power_on", "Power_off">>],
     [category |-> "Volume", names |-> <<"Vol_up", "Vol_down", "Mute">>],
     [category |-> "Channel",
      names |-> <<"Ch_up", "Ch_down", "0", "1", "2", "3", "4", "5", "6", "7",
                  "8", "9">>],
     [category |-> "Navigation",
      names |-> <<"Up", "Down", "Left", "Right", "Ok", "Back", "Menu", "Home",
                  "Guide", "Info">>],
     [category |-> "Input",
      names |-> <<"Source", "Input", "Hdmi1", "Hdmi2", "Hdmi3", "Tv", "Aux">>],
     [category |-> "Playback",
      names |-> <<"Play", "Pause", "Stop", "Ff", "Rw", "Rec", "Next", "Prev">>] >>

\* Protocol names with a converter in PROTOCOL_CONVERTERS.
PROTOCOL_CONVERTERS ==
  {"NEC", "NECext", "NEC42", "NEC42ext", "Samsung32", "Samsung36", "RC5",
   "RC5X", "RC6", "SIRC", "SIRC15", "SIRC20", "LG", "LG32", "Panasonic",
   "Kaseikyo", "Pioneer", "JVC", "Dish", "Coolix"}

RAW_ONLY_PROTOCOLS == {"RCMM"}

\* Whether convert_code returns a command (not None).  A missing or empty
\* field is None here (the callers pass `x or None`).
convert_ok(protocol, address, command, raw_data) ==
  IF protocol = "Pronto" /\ raw_data # None THEN TRUE
  ELSE IF protocol = "raw" /\ raw_data # None THEN TRUE
  ELSE IF protocol \in RAW_ONLY_PROTOCOLS THEN raw_data # None
  ELSE protocol \in PROTOCOL_CONVERTERS /\ address # None /\ command # None

\* ------------------------------------------------------- WizardSession
Phases ==
  <<"connect", "device_type", "brand", "identify", "narrowing", "map_buttons",
    "results">>

\* Position of a phase in the order of the WizardPhase enum.
PhaseRank(p) == CHOOSE i \in 1 .. Len(Phases) : Phases[i] = p

\* WizardSession() with created_at = t
WizardSession(t) ==
  [phase |-> "connect", device_type |-> "", brand |-> None, created_at |-> t,
   power_candidates |-> <<>>, current_candidate_idx |-> 0,
   matched_device_ids |-> <<>>, matched_brand |-> "",
   narrowing_pool |-> <<>>, narrowing_tested |-> <<>>, narrowing_round |-> 0,
   button_candidates |-> <<>>, current_button_idx |-> 0,
   confirmed_buttons |-> <<>>]

\* WizardSession.current_candidate: None when the cursor is out of range.
HasCurrentCandidate(x) ==
  0 <= x.current_candidate_idx /\ x.current_candidate_idx < Len(x.power_candidates)

current_candidate(x) == At(x.power_candidates, x.current_candidate_idx)

\* WizardSession.current_button: None when the cursor is out of range.
HasCurrentButton(x) ==
  0 <= x.current_button_idx /\ x.current_button_idx < Len(x.button_candidates)

current_button(x) == At(x.button_candidates, x.current_button_idx)

\* WizardSession.narrowing_total_rounds
narrowing_total_rounds(x) ==
  LET n == Len(x.power_candidates)
  IN IF n > 1 THEN (IF CeilLog2(n) > 1 THEN CeilLog2(n) ELSE 1) ELSE 1

ConfirmedButton(name, protocol, address, command, raw_data) ==
  [name |-> name, protocol |-> protocol, address |-> address,
   command |-> command, raw_data |-> raw_data]

PowerButton(c) ==
  ConfirmedButton("Power", c.protocol, c.address, c.command, c.raw_data)

ButtonOf(b) ==
  ConfirmedButton(b.button_name, b.protocol, b.address, b.command, b.raw_data)

Names(buttons) == {buttons[i].name : i \in 1 .. Len(buttons)}

\* ------------------------------------------------------ DiscoveryEngine
Tagged(b, category) ==
  [button_name |-> b.button_name, protocol |-> b.protocol,
   address |-> b.address, command |-> b.command, raw_data |-> b.raw_data,
   category |-> category]

\* The (category, target name) pairs in the order the two outer loops of
\* _load_button_candidates visit them.
CategoryTargets ==
  Concat([k \in 1 .. Len(BUTTON_CATEGORIES) |->
            [j \in 1 .. Len(BUTTON_CATEGORIES[k].names) |->
               [category |-> BUTTON_CATEGORIES[k].category,
                target |-> BUTTON_CATEGORIES[k].names[j]]]])

\* The category loops: buttons is in retrieval order (one entry per name),
\* seen the names excluded so far.
RECURSIVE OrderKnown(_, _, _, _)
OrderKnown(targets, buttons, seen, ordered) ==
  IF targets = <<>> THEN [ordered |-> ordered, seen |-> seen]
  ELSE LET t == Head(targets)
           hit == SelectSeq(buttons, LAMBDA b :
                    /\ Lower(b.button_name) = Lower(t.target)
                    /\ b.button_name \notin seen)
       IN OrderKnown(Tail(targets), buttons,
            seen \cup {hit[i].button_name : i \in 1 .. Len(hit)},
            ordered \o [i \in 1 .. Len(hit) |-> Tagged(hit[i], t.category)])

\* Variant that visits the targets of the category table in reverse.
OrderButtonsReversed(buttons) ==
  LET known == OrderKnown([k \in 1 .. Len(CategoryTargets) |->
                             CategoryTargets[Len(CategoryTargets) + 1 - k]],
                          buttons,
                          {"Power", "Power_on"}, <<>>)
      rest == SelectSeq(buttons, LAMBDA b :
                /\ b.button_name \notin known.seen
                /\ Lower(b.button_name) # "power")
  IN known.ordered \o [i \in 1 .. Len(rest) |-> Tagged(rest[i], "Other")]

OrderButtons(buttons) ==
  LET known == OrderKnown(CategoryTargets, buttons, {"Power", "Power_on"}, <<>>)
      rest == SelectSeq(buttons, LAMBDA b :
                /\ b.button_name \notin known.seen
                /\ Lower(b.button_name) # "power")
  IN known.ordered \o [i \in 1 .. Len(rest) |-> Tagged(rest[i], "Other")]

\* The catalogue is constant, so each query the engine can make is
\* answered once and looked up afterwards.
DeviceTypeValues == {"", "TV", "Device"}

BrandValues == {None, "Acme", "Bolt", "Zeta", "custom"}

PowerCodes ==
  [device_type \in DeviceTypeValues, brand \in BrandValues |->
     get_power_codes_grouped(device_type, brand)]

\* Every value matched_device_ids can take.
IdLists ==
  {<<>>, <<3>>}
  \cup UNION {{PowerCodes[k][i].device_ids : i \in 1 .. Len(PowerCodes[k])} :
              k \in DOMAIN PowerCodes}
  \cup {SortSet(UNION {Elems(PowerCodes[k][i].device_ids) :
                         i \in 1 .. Len(PowerCodes[k])}) :
          k \in DOMAIN PowerCodes}

ButtonCandidates ==
  [ids \in IdLists |-> OrderButtons(get_unique_buttons_for_devices(ids))]

\* DiscoveryEngine._load_button_candidates
load_button_candidates(x) ==
  [x EXCEPT
     !.button_candidates = ButtonCandidates[x.matched_device_ids],
     !.current_button_idx = 0]

\* DiscoveryEngine._load_power_candidates
load_power_candidates(x) ==
  [x EXCEPT
     !.power_candidates = PowerCodes[x.device_type, x.brand],
     !.current_candidate_idx = 0]

\* The engine operations below map a session to [ses, res]: the session as
\* the call leaves it and "ok" or the name of the exception it raised.
Ok(x) == [ses |-> x, res |-> "ok"]

Raised(x, e) == [ses |-> x, res |-> e]

\* DiscoveryEngine.set_device_type
set_device_type(x, device_type) ==
  Ok([x EXCEPT !.device_type = device_type, !.phase = "brand"])

\* DiscoveryEngine.set_brand
set_brand(x, brand) ==
  Ok(load_power_candidates(
       [x EXCEPT !.brand = IF brand # "_unknown" THEN brand ELSE None,
                 !.phase = "identify"]))

\* DiscoveryEngine._resolve_candidate
resolve_candidate(x, candidate) ==
  load_button_candidates(
    [x EXCEPT
       !.matched_device_ids = candidate.device_ids,
       !.matched_brand =
          IF candidate.brands # <<>> THEN candidate.brands[1] ELSE "",
       !.confirmed_buttons = Append(@, PowerButton(candidate)),
       !.phase = "map_buttons"])

\* Variant of resolve_candidates_imprecise that records the last candidate's
\* code and only its device ids, against C22.
resolve_candidates_imprecise_last(x) ==
  LET cands == x.power_candidates
  IN IF cands = <<>> THEN Raised(x, "IndexError")
     ELSE Ok(load_button_candidates(
               [x EXCEPT
                  !.matched_device_ids = cands[Len(cands)].device_ids,
                  !.confirmed_buttons = Append(@, PowerButton(cands[Len(cands)])),
                  !.phase = "map_buttons"]))

\* DiscoveryEngine._resolve_candidates_imprecise
resolve_candidates_imprecise(x) ==
  LET cands == x.power_candidates
      all_device_ids ==
        UNION {Elems(cands[i].device_ids) : i \in 1 .. Len(cands)}
      all_brands == UNION {Elems(cands[i].brands) : i \in 1 .. Len(cands)}
      sorted_brands == SelectSeq(BrandOrder, LAMBDA b : b \in all_brands)
      x1 == [x EXCEPT
               !.matched_device_ids = SortSet(all_device_ids),
               !.matched_brand =
                  IF all_brands # {} THEN sorted_brands[1] ELSE ""]
  IN IF cands = <<>> THEN Raised(x1, "IndexError")
     ELSE Ok(load_button_candidates(
               [x1 EXCEPT
                  !.confirmed_buttons = Append(@, PowerButton(cands[1])),
                  !.phase = "map_buttons"]))

\* Variant of confirm_power_code that also moves the cursor past the
\* confirmed candidate, against C23.
confirm_power_code_advancing(x, worked) ==
  LET idx == x.current_candidate_idx + 1
  IN IF worked
     THEN IF HasCurrentCandidate(x)
          THEN LET candidate == current_candidate(x)
               IN Ok(load_button_candidates(
                       [x EXCEPT
                          !.matched_device_ids = candidate.device_ids,
                          !.matched_brand =
                             IF candidate.brands # <<>> THEN candidate.brands[1]
                             ELSE "",
                          !.confirmed_buttons = Append(@, PowerButton(candidate)),
                          !.current_candidate_idx = idx,
                          !.phase = "map_buttons"]))
          ELSE Raised(x, "TypeError")
     ELSE Ok([x EXCEPT
                !.current_candidate_idx = idx,
                !.phase = IF idx >= Len(x.power_candidates) THEN "results" ELSE @])

\* Variant of confirm_power_code that leaves Identify one call late, against
\* C24.
confirm_power_code_late(x, worked) ==
  IF worked
  THEN IF HasCurrentCandidate(x)
       THEN LET candidate == current_candidate(x)
            IN Ok(load_button_candidates(
                    [x EXCEPT
                       !.matched_device_ids = candidate.device_ids,
                       !.matched_brand =
                          IF candidate.brands # <<>> THEN candidate.brands[1]
                          ELSE "",
                       !.confirmed_buttons = Append(@, PowerButton(candidate)),
                       !.phase = "map_buttons"]))
       ELSE Raised(x, "TypeError")
  ELSE LET idx == x.current_candidate_idx + 1
       IN Ok([x EXCEPT
                !.current_candidate_idx = idx,
                !.phase = IF idx > Len(x.power_candidates) THEN "results" ELSE @])

\* DiscoveryEngine.confirm_power_code
confirm_power_code(x, worked) ==
  IF worked
  THEN IF HasCurrentCandidate(x)
       THEN LET candidate == current_candidate(x)
            IN Ok(load_button_candidates(
                    [x EXCEPT
                       !.matched_device_ids = candidate.device_ids,
                       !.matched_brand =
                          IF candidate.brands # <<>> THEN candidate.brands[1]
                          ELSE "",
                       !.confirmed_buttons = Append(@, PowerButton(candidate)),
                       !.phase = "map_buttons"]))
       ELSE Raised(x, "TypeError")
  ELSE LET idx == x.current_candidate_idx + 1
       IN Ok([x EXCEPT
                !.current_candidate_idx = idx,
                !.phase = IF idx >= Len(x.power_candidates) THEN "results" ELSE @])

\* Variant of TestSubset that tests one candidate at a time: the search is
\* linear and C1's bound on the rounds is lost.
TestSubsetOne(pool) == Prefix(pool, IF pool = <<>> THEN 0 ELSE 1)

\* The subset blasted next: mid = len(pool) // 2; pool[:mid]
TestSubset(pool) == Prefix(pool, Len(pool) \div 2)

\* Variant of start_narrowing that counts the bulk blast as the first round,
\* against C37.
start_narrowing_counting_blast(x) ==
  LET pool == Range(Len(x.power_candidates))
  IN Ok([x EXCEPT
           !.narrowing_pool = pool,
           !.narrowing_round = 2,
           !.phase = "narrowing",
           !.narrowing_tested = TestSubset(pool)])

\* DiscoveryEngine.start_narrowing
start_narrowing(x) ==
  LET pool == Range(Len(x.power_candidates))
  IN Ok([x EXCEPT
           !.narrowing_pool = pool,
           !.narrowing_round = 1,
           !.phase = "narrowing",
           !.narrowing_tested = TestSubset(pool)])

\* Variant of confirm_bulk_blast that narrows only above two candidates: with
\* exactly two it resolves to the first, against C10.
confirm_bulk_blast_above_two(x, worked) ==
  IF worked
  THEN IF Len(x.power_candidates) > 2 THEN start_narrowing(x)
       ELSE IF x.power_candidates = <<>> THEN Raised(x, "IndexError")
       ELSE Ok(resolve_candidate(x, x.power_candidates[1]))
  ELSE Ok([x EXCEPT !.phase = "results"])

\* Variant of confirm_bulk_blast that starts narrowing whatever the number
\* of candidates, against C36.
confirm_bulk_blast_always_narrowing(x, worked) ==
  IF worked THEN start_narrowing(x)
  ELSE Ok([x EXCEPT !.phase = "results"])

\* DiscoveryEngine.confirm_bulk_blast
confirm_bulk_blast(x, worked) ==
  IF worked
  THEN IF Len(x.power_candidates) > 1 THEN start_narrowing(x)
       ELSE IF x.power_candidates = <<>> THEN Raised(x, "IndexError")
       ELSE Ok(resolve_candidate(x, x.power_candidates[1]))
  ELSE Ok([x EXCEPT !.phase = "results"])

\* Variant of NarrowedPool that keeps the wrong half: the working candidate
\* leaves the pool, against C2.
NarrowedPoolSwapped(x, worked) ==
  IF worked
  THEN SelectSeq(x.narrowing_pool, LAMBDA i : i \notin Elems(x.narrowing_tested))
  ELSE x.narrowing_tested

\* Variant of NarrowedPool that keeps the whole pool on a "no": the pool does
\* not shrink, against C3.
NarrowedPoolKept(x, worked) ==
  IF worked THEN x.narrowing_tested ELSE x.narrowing_pool

\* The pool narrow_confirm keeps for an answer.
NarrowedPool(x, worked) ==
  IF worked THEN x.narrowing_tested
  ELSE SelectSeq(x.narrowing_pool, LAMBDA i : i \notin Elems(x.narrowing_tested))

\* Variant of narrow_confirm that does not recompute narrowing_tested for the
\* next round: the subset tested is no longer within the pool, against C4.
narrow_confirm_stale(x, worked) ==
  LET x1 == [x EXCEPT !.narrowing_pool = NarrowedPool(x, worked)]
      pool == x1.narrowing_pool
  IN IF Len(pool) = 0 THEN resolve_candidates_imprecise(x1)
     ELSE IF Len(pool) = 1
     THEN IF pool[1] < Len(x1.power_candidates)
          THEN Ok(resolve_candidate(x1, At(x1.power_candidates, pool[1])))
          ELSE Raised(x1, "IndexError")
     ELSE Ok([x1 EXCEPT !.narrowing_round = @ + 1])

\* DiscoveryEngine.narrow_confirm
narrow_confirm(x, worked) ==
  LET x1 == [x EXCEPT !.narrowing_pool = NarrowedPool(x, worked)]
      pool == x1.narrowing_pool
  IN IF Len(pool) = 0 THEN resolve_candidates_imprecise(x1)
     ELSE IF Len(pool) = 1
     THEN IF pool[1] < Len(x1.power_candidates)
          THEN Ok(resolve_candidate(x1, At(x1.power_candidates, pool[1])))
          ELSE Raised(x1, "IndexError")
     ELSE Ok([x1 EXCEPT
                !.narrowing_round = @ + 1,
                !.narrowing_tested = TestSubset(pool)])

\* DiscoveryEngine.confirm_button
confirm_button(x, worked) ==
  LET x1 == IF worked /\ HasCurrentButton(x)
            THEN [x EXCEPT
                    !.confirmed_buttons = Append(@, ButtonOf(current_button(x)))]
            ELSE x
      idx == x.current_button_idx + 1
  IN Ok([x1 EXCEPT
           !.current_button_idx = idx,
           !.phase = IF idx >= Len(x.button_candidates) THEN "results" ELSE @])

\* Variant of skip_to_results that forgets the match, against C25.
skip_to_results_unmatched(x) ==
  Ok([x EXCEPT !.phase = "results", !.matched_device_ids = <<>>])

\* DiscoveryEngine.skip_to_results
skip_to_results(x) == Ok([x EXCEPT !.phase = "results"])

\* ---------------------------------------------------------------- state
VARIABLES
  sessions,  \* DiscoveryEngine.sessions: session id -> WizardSession
  now,       \* time.time()
  last,      \* the last call: operation, session id, argument and outcome
  run,       \* history of the narrowing started by the last confirmed bulk
             \* blast: the answers given so far and the candidates they fit
  touched,   \* history: session id -> time of the last operation on it
  codec,     \* a call of protocol_map.py: its arguments, then its result
  capture,   \* a call of ESPHomeIRClient.listen_for_ir
  tx,        \* the requests that transmit, and the client they share
  loop       \* the event loop: the coroutine it runs and the requests that
             \* change a session

\* The state outside the discovery engine.
ioVars == <<codec, capture, tx, loop>>

\* The state of the discovery engine and its history.
engineVars == <<sessions, now, last, run, touched>>

vars == <<sessions, now, last, run, touched, ioVars>>

\* ------------------------------------------------------------- inputs
DeviceTypeInputs == {"TV"}

BrandInputs == {"Acme", "Bolt", "_unknown"}

Answer(worked) == IF worked THEN "yes" ELSE "no"

\* Profiles the device store can hold (written by save_yaml_route): one
\* saved after a catalogue match, one saved from learn mode.
Profiles ==
  { [device_type |-> "TV", brand |-> "Acme", matched_brand |-> "Acme",
     matched_device_ids |-> <<3>>,
     buttons |-> <<ConfirmedButton("Power", "NEC", "05 00 00 00", "09 00 00 00", None)>>],
    [device_type |-> "Device", brand |-> "custom", matched_brand |-> "",
     matched_device_ids |-> <<>>,
     buttons |-> <<ConfirmedButton("Aux", "NEC", "0x20DF", "0x10EF", None)>>] }

\* Captures a learn form can post: a decoded NEC signal, and a signal of a
\* protocol without converter that came with a Pronto fallback.
Captures ==
  { [protocol |-> "NEC", address |-> "0x20DF", command |-> "0x10EF", raw_data |-> None,
     pronto |-> None],
    [protocol |-> "Dyson", address |-> None, command |-> None,
     raw_data |-> None, pronto |-> "0000 006D 0022 0002"] }

LearnNames == {"Power", "Aux"}

\* ------------------------------------------------------- session store
\* Variant of evict_stale that evicts nothing: create_session leaves
\* sessions past the TTL in the store, against C8.
evict_stale_nothing(S, t) == S

\* DiscoveryEngine._evict_stale at time t
evict_stale(S, t) ==
  LET stale == {sid \in DOMAIN S : t - S[sid].created_at > SESSION_TTL}
  IN [sid \in DOMAIN S \ stale |-> S[sid]]

\* DiscoveryEngine.create_session at time t
create_session(S, sid, t) ==
  LET kept == evict_stale(S, t)
  IN [s \in DOMAIN kept \cup {sid} |->
        IF s = sid THEN WizardSession(t) ELSE kept[s]]

\* DiscoveryEngine.get_session at time t: the store it leaves and whether a
\* session is returned.
get_session(S, sid, t) ==
  IF sid \in DOMAIN S /\ t - S[sid].created_at > SESSION_TTL
  THEN [store |-> [s \in DOMAIN S \ {sid} |-> S[s]], found |-> FALSE]
  ELSE [store |-> S, found |-> sid \in DOMAIN S]

\* --------------------------------------------------- history bookkeeping
Call(op, sid, arg, res) == [op |-> op, sid |-> sid, arg |-> arg, res |-> res]

IdleRun ==
  [sid |-> None, st |-> "idle", from |-> "none", n |-> 0, cons |-> {},
   calls |-> 0, r0 |-> 0, allno |-> FALSE]

\* The run after operation op(arg) took session x of sid to r.
NextRun(op, sid, arg, x, r) ==
  IF op = "confirm_bulk_blast" /\ arg = "yes" /\ r.res = "ok"
  THEN [sid |-> sid,
        st |-> IF r.ses.phase = "narrowing" THEN "narrowing" ELSE "resolved",
        from |-> x.phase,
        n |-> Len(x.power_candidates),
        cons |-> Elems(Range(Len(x.power_candidates))),
        calls |-> 0,
        r0 |-> x.narrowing_round,
        allno |-> TRUE]
  ELSE IF op = "narrow_confirm" /\ run.sid = sid /\ run.st = "narrowing"
  THEN [run EXCEPT
          !.calls = @ + 1,
          !.allno = @ /\ arg = "no",
          !.cons = {t \in @ : (arg = "yes") <=> (t \in Elems(x.narrowing_tested))},
          !.st = IF r.res # "ok" THEN "error"
                 ELSE IF Len(r.ses.narrowing_pool) = 0 THEN "fallback"
                 ELSE IF Len(r.ses.narrowing_pool) = 1 THEN "resolved"
                 ELSE "narrowing"]
  ELSE IF run.sid = sid THEN IdleRun
  ELSE run

\* Session sid, being x, is left as r.ses by op(arg), in the store S.
Apply(S, op, sid, arg, x, r) ==
  /\ sessions' = [S EXCEPT ![sid] = r.ses]
  /\ touched' = [touched EXCEPT ![sid] = now]
  /\ last' = Call(op, sid, arg, r.res)
  /\ run' = NextRun(op, sid, arg, x, r)

\* op(arg) ends with outcome res and the store S, no session changed.
Fail(S, op, sid, arg, res) ==
  /\ sessions' = S
  /\ touched' = [s \in DOMAIN S |-> touched[s]]
  /\ last' = Call(op, sid, arg, res)
  /\ run' = IF run.sid = sid /\ sid \notin DOMAIN S THEN IdleRun ELSE run

\* An engine method called with sid: self.sessions[session_id] raises
\* KeyError for an id that is not in the store.
Engine(op, sid, arg, F(_)) ==
  IF sid \in DOMAIN sessions
  THEN Apply(sessions, op, sid, arg, sessions[sid], F(sessions[sid]))
  ELSE Fail(sessions, op, sid, arg, "KeyError")

\* A request handler that starts with engine.get_session and redirects to
\* "/" when it returns None.
Handler(route, op, sid, arg, F(_)) ==
  LET g == get_session(sessions, sid, now)
  IN IF g.found
     THEN Apply(g.store, op, sid, arg, g.store[sid], F(g.store[sid]))
     ELSE Fail(g.store, route, sid, arg, "redirect")

\* ------------------------------------------------- engine operations
\* create_session with a fresh uuid4; the outcome is "swept" when the call
\* evicted a session.
CreateSession(sid) ==
  /\ sid \notin DOMAIN sessions
  /\ sessions' = create_session(sessions, sid, now)
  /\ touched' = [s \in DOMAIN sessions' |-> IF s = sid THEN now ELSE touched[s]]
  /\ last' = Call("create_session", sid, "",
                  IF evict_stale(sessions, now) = sessions THEN "ok" ELSE "swept")
  /\ run' = IF run.sid \in DOMAIN sessions' THEN run ELSE IdleRun
  /\ UNCHANGED <<now, ioVars>>

SetDeviceType(sid, device_type) ==
  /\ Engine("set_device_type", sid, device_type,
            LAMBDA x : set_device_type(x, device_type))
  /\ UNCHANGED <<now, ioVars>>

SetBrand(sid, brand) ==
  /\ Engine("set_brand", sid, brand, LAMBDA x : set_brand(x, brand))
  /\ UNCHANGED <<now, ioVars>>

ConfirmPowerCode(sid, worked) ==
  /\ Engine("confirm_power_code", sid, Answer(worked),
            LAMBDA x : confirm_power_code(x, worked))
  /\ UNCHANGED <<now, ioVars>>

ConfirmBulkBlast(sid, worked) ==
  /\ Engine("confirm_bulk_blast", sid, Answer(worked),
            LAMBDA x : confirm_bulk_blast(x, worked))
  /\ UNCHANGED <<now, ioVars>>

StartNarrowing(sid) ==
  /\ Engine("start_narrowing", sid, "", LAMBDA x : start_narrowing(x))
  /\ UNCHANGED <<now, ioVars>>

NarrowConfirm(sid, worked) ==
  /\ Engine("narrow_confirm", sid, Answer(worked),
            LAMBDA x : narrow_confirm(x, worked))
  /\ UNCHANGED <<now, ioVars>>

ConfirmButton(sid, worked) ==
  /\ Engine("confirm_button", sid, Answer(worked),
            LAMBDA x : confirm_button(x, worked))
  /\ UNCHANGED <<now, ioVars>>

SkipToResults(sid) ==
  /\ Engine("skip_to_results", sid, "", LAMBDA x : skip_to_results(x))
  /\ UNCHANGED <<now, ioVars>>

\* engine.get_session as the request handlers call it (send_test,
\* bulk_blast, pick_button_test, save_yaml_route, ...).  The outcome is
\* "found" for a session returned and, for None, "expired" when the session
\* was deleted by the call and "None" when the id was not in the store.
GetSession(sid) ==
  /\ LET g == get_session(sessions, sid, now)
     IN Fail(g.store, "get_session", sid, "",
             IF g.found THEN "found"
             ELSE IF sid \in DOMAIN sessions THEN "expired" ELSE "None")
  /\ UNCHANGED <<now, ioVars>>

\* ------------------------------------------- request handlers (main.py)
\* edit_device: a new session restored from a saved profile.
EditDevice(sid, profile) ==
  /\ sid \notin DOMAIN sessions
  /\ sessions' =
       [create_session(sessions, sid, now) EXCEPT
          ![sid] = [@ EXCEPT
                      !.device_type = profile.device_type,
                      !.brand = profile.brand,
                      !.matched_brand = profile.matched_brand,
                      !.matched_device_ids = profile.matched_device_ids,
                      !.confirmed_buttons = profile.buttons,
                      !.phase = "map_buttons"]]
  /\ touched' = [s \in DOMAIN sessions' |-> IF s = sid THEN now ELSE touched[s]]
  /\ last' = Call("edit_device", sid, "", "ok")
  /\ run' = IF run.sid \in DOMAIN sessions' THEN run ELSE IdleRun
  /\ UNCHANGED <<now, ioVars>>

\* connect, the connection having succeeded: the edit flow reloads the
\* button candidates, the normal flow leaves the session as it is.
connect(x) ==
  Ok(IF x.phase = "map_buttons" /\ x.matched_device_ids # <<>>
     THEN load_button_candidates(x) ELSE x)

Connect(sid) ==
  /\ LET g == get_session(sessions, sid, now)
     IN IF g.found
        THEN Apply(g.store, "connect", sid, "", g.store[sid],
                   connect(g.store[sid]))
        ELSE Fail(g.store, "connect", sid, "", "ok")
  /\ UNCHANGED <<now, ioVars>>

\* confirm
confirm(x, worked) ==
  IF x.phase = "identify" THEN confirm_power_code(x, worked)
  ELSE Raised(x, "redirect")

Confirm(sid, worked) ==
  /\ Handler("confirm", "confirm_power_code", sid, Answer(worked),
             LAMBDA x : confirm(x, worked))
  /\ UNCHANGED <<now, ioVars>>

\* bulk_confirm
BulkConfirm(sid, worked) ==
  /\ Handler("bulk_confirm", "confirm_bulk_blast", sid, Answer(worked),
             LAMBDA x : confirm_bulk_blast(x, worked))
  /\ UNCHANGED <<now, ioVars>>

\* narrow_confirm (the request handler)
NarrowConfirmRequest(sid, worked) ==
  /\ Handler("narrow_confirm_request", "narrow_confirm", sid, Answer(worked),
             LAMBDA x : narrow_confirm(x, worked))
  /\ UNCHANGED <<now, ioVars>>

\* pick_button_save
pick_button_save(x, button_idx) ==
  IF 0 <= button_idx /\ button_idx < Len(x.button_candidates)
  THEN LET button == At(x.button_candidates, button_idx)
       IN Ok(IF button.button_name \notin Names(x.confirmed_buttons)
             THEN [x EXCEPT !.confirmed_buttons = Append(@, ButtonOf(button))]
             ELSE x)
  ELSE Raised(x, "UnboundLocalError")

PickButtonSave(sid, button_idx) ==
  /\ Handler("pick_button_save", "pick_button_save", sid, "",
             LAMBDA x : pick_button_save(x, button_idx))
  /\ UNCHANGED <<now, ioVars>>

\* pick_button_delete and learn_delete
button_delete(x, button_index) ==
  Ok(IF 0 <= button_index /\ button_index < Len(x.confirmed_buttons)
     THEN [x EXCEPT !.confirmed_buttons = Pop(@, button_index)]
     ELSE x)

PickButtonDelete(sid, button_index) ==
  /\ Handler("pick_button_delete", "pick_button_delete", sid, "",
             LAMBDA x : button_delete(x, button_index))
  /\ UNCHANGED <<now, ioVars>>

LearnDelete(sid, button_index) ==
  /\ Handler("learn_delete", "learn_delete", sid, "",
             LAMBDA x : button_delete(x, button_index))
  /\ UNCHANGED <<now, ioVars>>

\* learn_mode
learn_mode(x) ==
  Ok([x EXCEPT !.device_type = IF @ # "" THEN @ ELSE "Device"])

LearnMode(sid) ==
  /\ Handler("learn_mode", "learn_mode", sid, "", LAMBDA x : learn_mode(x))
  /\ UNCHANGED <<now, ioVars>>

\* learn_save: button_name is the name as stripped.
learn_save(x, button_name, cap) ==
  LET native == convert_ok(cap.protocol, cap.address, cap.command, cap.raw_data)
      fallback == ~native /\ cap.pronto # None
      saved == IF fallback
               THEN ConfirmedButton(button_name, "Pronto", None, None, cap.pronto)
               ELSE ConfirmedButton(button_name, cap.protocol, cap.address,
                                    cap.command, cap.raw_data)
  IN Ok([x EXCEPT !.confirmed_buttons = Append(@, saved)])

LearnSave(sid, button_name, cap) ==
  /\ Handler("learn_save", "learn_save", sid, button_name,
             LAMBDA x : learn_save(x, button_name, cap))
  /\ UNCHANGED <<now, ioVars>>

\* learn_back_to_picker
LearnBackToPicker(sid) ==
  /\ Handler("learn_back_to_picker", "learn_back_to_picker", sid, "",
             LAMBDA x : Ok(load_button_candidates(x)))
  /\ UNCHANGED <<now, ioVars>>

\* learn_done
LearnDone(sid) ==
  /\ Handler("learn_done", "learn_done", sid, "",
             LAMBDA x : Ok([x EXCEPT !.phase = "results"]))
  /\ UNCHANGED <<now, ioVars>>

\* The clock advances.
Tick ==
  /\ now < MaxTime
  /\ now' = now + 1
  /\ last' = Call("tick", None, "", "ok")
  /\ UNCHANGED <<sessions, run, touched, ioVars>>

\* ------------------------------------------- protocol_map.py (the codec)
\* A string of the codec (an address, a command, a raw payload) is the
\* sequence of its whitespace-separated tokens, str.split(), and a token the
\* sequence of its characters: "04 00" is <<<<"0", "4">>, <<"0", "0">>>>.
\* The empty string is <<>>; strings of white space only are not modelled.
NoStr == << <<"None">> >>

\* Truth value of an optional string: None and "" are false.
Truthy(str) == str # NoStr /\ str # <<>>

HexDigits ==
  <<"0", "1", "2", "3", "4", "5", "6", "7", "8", "9",
    "A", "B", "C", "D", "E", "F">>

LowerHexDigits ==
  <<"0", "1", "2", "3", "4", "5", "6", "7", "8", "9",
    "a", "b", "c", "d", "e", "f">>

IsHexDigit(ch) == \E i \in 1 .. 16 : HexDigits[i] = ch \/ LowerHexDigits[i] = ch

HexValue(ch) ==
  (CHOOSE i \in 1 .. 16 : HexDigits[i] = ch \/ LowerHexDigits[i] = ch) - 1

\* int(part, 16) for a token of hexadecimal digits
RECURSIVE IntHex(_)
IntHex(part) ==
  IF part = <<>> THEN 0
  ELSE 16 * IntHex(SubSeq(part, 1, Len(part) - 1)) + HexValue(part[Len(part)])

IsHex(part) == part # <<>> /\ \A i \in 1 .. Len(part) : IsHexDigit(part[i])

\* int(x) for a token of decimal digits, with an optional sign
IsDec(part) ==
  LET digits == IF part # <<>> /\ part[1] \in {"-", "+"} THEN Tail(part) ELSE part
  IN /\ digits # <<>>
     /\ \A i \in 1 .. Len(digits) : IsHexDigit(digits[i]) /\ HexValue(digits[i]) <= 9

RECURSIVE IntDecDigits(_)
IntDecDigits(digits) ==
  IF digits = <<>> THEN 0
  ELSE 10 * IntDecDigits(SubSeq(digits, 1, Len(digits) - 1))
       + HexValue(digits[Len(digits)])

IntDec(part) ==
  IF part[1] = "-" THEN 0 - IntDecDigits(Tail(part))
  ELSE IF part[1] = "+" THEN IntDecDigits(Tail(part))
  ELSE IntDecDigits(part)

\* Python's bit operators on its unbounded integers.
RECURSIVE BitAndNat(_, _)
BitAndNat(a, b) ==
  IF a = 0 \/ b = 0 THEN 0
  ELSE (a % 2) * (b % 2) + 2 * BitAndNat(a \div 2, b \div 2)

\* a & b for b >= 0; a negative a is -(y + 1) = ~y, and ~y & b = b - (y & b).
BitAnd(a, b) == IF a < 0 THEN b - BitAndNat(0 - a - 1, b) ELSE BitAndNat(a, b)

\* a | b for a, b >= 0
RECURSIVE BitOr(_, _)
BitOr(a, b) ==
  IF a = 0 THEN b
  ELSE IF b = 0 THEN a
  ELSE (IF a % 2 = 1 \/ b % 2 = 1 THEN 1 ELSE 0) + 2 * BitOr(a \div 2, b \div 2)

\* ~a
Invert(a) == 0 - a - 1

\* a << k
Shl(a, k) == a * 2 ^ k

\* a >> k for a >= 0
Shr(a, k) == a \div 2 ^ k

\* value |= int(parts[i], 16) << (8 * i) for i in range(k), from i on
RECURSIVE OrBytes(_, _, _)
OrBytes(parts, i, k) ==
  IF i >= k THEN 0
  ELSE BitOr(Shl(IntHex(At(parts, i)), 8 * i), OrBytes(parts, i + 1, k))

\* _hex_bytes_to_int
hex_bytes_to_int(hex_str, num_bytes) ==
  OrBytes(hex_str, 0, IF num_bytes < Len(hex_str) THEN num_bytes ELSE Len(hex_str))

\* _hex_bytes_to_full_int
hex_bytes_to_full_int(hex_str) == OrBytes(hex_str, 0, Len(hex_str))

\* Variant of add_complement that repeats the byte instead of complementing
\* it, against C12.
add_complement_repeated(byte_val) == BitOr(byte_val, Shl(BitAnd(byte_val, 255), 8))

\* _add_complement
add_complement(byte_val) ==
  BitOr(byte_val, Shl(BitAnd(Invert(byte_val), 255), 8))

\* _reverse_bits
reverse_bits(b) ==
  LET b1 == BitOr(Shr(BitAnd(b, 240), 4), Shl(BitAnd(b, 15), 4))
      b2 == BitOr(Shr(BitAnd(b1, 204), 2), Shl(BitAnd(b1, 51), 2))
  IN BitOr(Shr(BitAnd(b2, 170), 1), Shl(BitAnd(b2, 85), 1))

\* The loop of _reverse_bits_n with k iterations left.
RECURSIVE ReverseLoop(_, _, _)
ReverseLoop(result, value, k) ==
  IF k = 0 THEN result
  ELSE ReverseLoop(BitOr(Shl(result, 1), BitAnd(value, 1)), Shr(value, 1), k - 1)

\* Variant of reverse_bits_n whose loop stops one bit early, against C13.
reverse_bits_n_short(value, n) == ReverseLoop(0, value, n - 1)

\* _reverse_bits_n
reverse_bits_n(value, n) == ReverseLoop(0, value, n)

\* ESPHomeIRCommand(service, data, repeat=1)
ESPHomeIRCommand(service, data, repeat) ==
  [service |-> service, data |-> data, repeat |-> repeat]

\* What convert_code returns for None, and the outcome of a converter that
\* raises ValueError.
NoCommand == [service |-> "None"]

ValueError == [service |-> "ValueError"]

\* int(hex_str, 16) on a whole string: one token of hexadecimal digits, or
\* ValueError (white space inside the number, or no digit at all).
IsNumeral(hex_str) == Len(hex_str) = 1 /\ IsHex(hex_str[1])

\* _convert_nec
convert_nec(address_hex, command_hex) ==
  LET addr_byte == hex_bytes_to_int(address_hex, 1)
      cmd_byte == hex_bytes_to_int(command_hex, 1)
  IN ESPHomeIRCommand("send_ir_nec",
       [address |-> add_complement(addr_byte),
        command |-> add_complement(cmd_byte)], 1)

\* _convert_necext
convert_necext(address_hex, command_hex) ==
  ESPHomeIRCommand("send_ir_nec",
    [address |-> hex_bytes_to_int(address_hex, 2),
     command |-> add_complement(hex_bytes_to_int(command_hex, 1))], 1)

\* Variant that frames the bytes as stored, without reversing their bits.
convert_samsung32_unreversed(address_hex, command_hex) ==
  LET addr == hex_bytes_to_int(address_hex, 1)
      cmd == hex_bytes_to_int(command_hex, 1)
  IN ESPHomeIRCommand("send_ir_samsung",
       [data |-> [hi |-> BitOr(Shl(addr, 8), addr),
                  lo |-> BitOr(Shl(cmd, 8), BitAnd(Invert(cmd), 255))]], 1)

\* _convert_samsung32.  The 32-bit word (addr << 24) | (addr << 16) |
\* (cmd << 8) | (~cmd & 0xFF) is kept as its two 16-bit halves, hi and lo
\* (addr and cmd, results of _reverse_bits, are below 256).
convert_samsung32(address_hex, command_hex) ==
  LET addr == reverse_bits(hex_bytes_to_int(address_hex, 1))
      cmd == reverse_bits(hex_bytes_to_int(command_hex, 1))
  IN ESPHomeIRCommand("send_ir_samsung",
       [data |-> [hi |-> BitOr(Shl(addr, 8), addr),
                  lo |-> BitOr(Shl(cmd, 8), BitAnd(Invert(cmd), 255))]], 1)

\* _convert_samsung36
convert_samsung36(address_hex, command_hex) ==
  IF IsNumeral(address_hex) /\ IsNumeral(command_hex)
  THEN ESPHomeIRCommand("send_ir_samsung36",
         [address |-> IntHex(address_hex[1]),
          command |-> IntHex(command_hex[1])], 1)
  ELSE ValueError

\* _convert_rc5, _convert_rc6 and _convert_dish, which differ in the service
ConvertBytePair(service, address_hex, command_hex) ==
  ESPHomeIRCommand(service,
    [address |-> hex_bytes_to_int(address_hex, 1),
     command |-> hex_bytes_to_int(command_hex, 1)], 1)

\* Variant that sends the logical word as it is, without the reversal.
convert_sirc_unreversed(address_hex, command_hex, nbits) ==
  LET address == hex_bytes_to_int(address_hex, 2)
      command == hex_bytes_to_int(command_hex, 1)
      logical == BitOr(Shl(address, 7), BitAnd(command, 127))
  IN ESPHomeIRCommand("send_ir_sony",
       [data |-> logical % 2 ^ nbits, nbits |-> nbits], 3)

\* _convert_sirc
convert_sirc(address_hex, command_hex, nbits) ==
  LET address == hex_bytes_to_int(address_hex, 2)
      command == hex_bytes_to_int(command_hex, 1)
      logical == BitOr(Shl(address, 7), BitAnd(command, 127))
  IN ESPHomeIRCommand("send_ir_sony",
       [data |-> reverse_bits_n(logical, nbits), nbits |-> nbits], 3)

\* len(address_hex.strip().replace(" ", ""))
RECURSIVE HexLen(_)
HexLen(hex_str) ==
  IF hex_str = <<>> THEN 0 ELSE Len(Head(hex_str)) + HexLen(Tail(hex_str))

\* _convert_lg
convert_lg(address_hex, command_hex) ==
  LET hex_len == HexLen(address_hex)
  IN ESPHomeIRCommand("send_ir_lg",
       [data |-> hex_bytes_to_full_int(address_hex),
        nbits |-> IF hex_len * 4 > 28 THEN hex_len * 4 ELSE 28], 1)

\* _convert_panasonic
convert_panasonic(address_hex, command_hex) ==
  ESPHomeIRCommand("send_ir_panasonic",
    [address |-> hex_bytes_to_int(address_hex, 2),
     command |-> hex_bytes_to_full_int(command_hex)], 1)

\* _convert_pioneer
convert_pioneer(address_hex, command_hex) ==
  ESPHomeIRCommand("send_ir_pioneer",
    [rc_code_1 |-> hex_bytes_to_full_int(address_hex)], 1)

\* _convert_jvc
convert_jvc(address_hex, command_hex) ==
  ESPHomeIRCommand("send_ir_jvc", [data |-> hex_bytes_to_full_int(command_hex)], 1)

\* _convert_coolix
convert_coolix(address_hex, command_hex) ==
  ESPHomeIRCommand("send_ir_coolix",
    [first |-> hex_bytes_to_full_int(command_hex)], 1)

\* _convert_raw
convert_raw(raw_data) ==
  IF \A i \in 1 .. Len(raw_data) : IsDec(raw_data[i])
  THEN ESPHomeIRCommand("send_ir_raw",
         [code |-> [i \in 1 .. Len(raw_data) |-> IntDec(raw_data[i])]], 1)
  ELSE ValueError

\* PROTOCOL_CONVERTERS[protocol](address, command), for an address and a
\* command whose tokens are hexadecimal numbers.
Converter(protocol, address, command) ==
  IF protocol = "Samsung36" THEN convert_samsung36(address, command)
  ELSE CASE protocol \in {"NEC", "NEC42"} -> convert_nec(address, command)
         [] protocol \in {"NECext", "NEC42ext"} -> convert_necext(address, command)
         [] protocol = "Samsung32" -> convert_samsung32(address, command)
         [] protocol \in {"RC5", "RC5X"} ->
              ConvertBytePair("send_ir_rc5", address, command)
         [] protocol = "RC6" -> ConvertBytePair("send_ir_rc6", address, command)
         [] protocol = "SIRC" -> convert_sirc(address, command, 12)
         [] protocol = "SIRC15" -> convert_sirc(address, command, 15)
         [] protocol = "SIRC20" -> convert_sirc(address, command, 20)
         [] protocol \in {"LG", "LG32"} -> convert_lg(address, command)
         [] protocol \in {"Panasonic", "Kaseikyo"} ->
              convert_panasonic(address, command)
         [] protocol = "Pioneer" -> convert_pioneer(address, command)
         [] protocol = "JVC" -> convert_jvc(address, command)
         [] protocol = "Dish" -> ConvertBytePair("send_ir_dish", address, command)
         [] protocol = "Coolix" -> convert_coolix(address, command)

\* Variant of convert_code that sends the raw payload when a table protocol
\* lacks its address or command, against C14.
convert_code_raw_fallback(protocol, address, command, raw_data) ==
  IF protocol = "Pronto" /\ Truthy(raw_data)
  THEN ESPHomeIRCommand("send_ir_pronto", [data |-> raw_data], 1)
  ELSE IF protocol \in PROTOCOL_CONVERTERS /\ Truthy(address) /\ Truthy(command)
  THEN Converter(protocol, address, command)
  ELSE IF Truthy(raw_data)
  THEN convert_raw(raw_data)
  ELSE NoCommand

\* convert_code
convert_code(protocol, address, command, raw_data) ==
  IF protocol = "Pronto" /\ Truthy(raw_data)
  THEN ESPHomeIRCommand("send_ir_pronto", [data |-> raw_data], 1)
  ELSE IF protocol = "raw" /\ Truthy(raw_data) THEN convert_raw(raw_data)
  ELSE IF protocol \in RAW_ONLY_PROTOCOLS
  THEN (IF Truthy(raw_data) THEN convert_raw(raw_data) ELSE NoCommand)
  ELSE IF protocol \in PROTOCOL_CONVERTERS /\ Truthy(address) /\ Truthy(command)
  THEN Converter(protocol, address, command)
  ELSE NoCommand

\* No call of the codec is under way.
CodecIdle == [op |-> "idle"]

\* ------------------------------------------------------ codec inputs
\* The token of two hexadecimal digits that writes byte b.
ByteToken(b) == <<HexDigits[(b \div 16) + 1], HexDigits[(b % 16) + 1]>>

\* Flipper-style strings whose first byte is b: "bb", "bb 00", "bb 00 00 00".
ByteStrings(b) ==
  { <<ByteToken(b)>>, <<ByteToken(b), ByteToken(0)>>,
    <<ByteToken(b), ByteToken(0), ByteToken(0), ByteToken(0)>> }

Bytes == 0 .. 255

SampleBytes == {0, 1, 4, 7, 8, 21, 127, 128, 255}

\* (address, command) pairs of one-byte values: every byte against the
\* sample, in each position.
BytePairs ==
  {<<a, c>> \in Bytes \X Bytes : a \in SampleBytes \/ c \in SampleBytes}

\* Protocol names: the converter table, Pronto, raw, the raw-only protocol,
\* and names the codec does not know.
ProtocolInputs ==
  PROTOCOL_CONVERTERS \cup RAW_ONLY_PROTOCOLS \cup {"Pronto", "raw", "Denon", "Samsung"}

\* Optional strings: None, "", a Flipper byte string, a hexadecimal numeral.
AddressInputs ==
  {NoStr, <<>>, <<ByteToken(4), ByteToken(0)>>, <<<<"1", "2", "3", "4">>>>}

CommandInputs ==
  {NoStr, <<>>, <<ByteToken(8), ByteToken(0)>>, <<<<"5", "6", "7", "8">>>>}

\* None, "", and the timing sequence "9000 4500 560".
RawInputs ==
  {NoStr, <<>>,
   << <<"9", "0", "0", "0">>, <<"4", "5", "0", "0">>, <<"5", "6", "0">> >>}

\* A call convert_code(protocol, address, command, raw_data) about to be made.
CodecCall(protocol, address, command, raw_data) ==
  [op |-> "convert_code", protocol |-> protocol, address |-> address,
   command |-> command, raw_data |-> raw_data, done |-> FALSE, out |-> NoCommand]

\* The Sony entries of PROTOCOL_CONVERTERS, and the bytes tried as the high
\* byte of their address and, besides the sample, as their command.
SircProtocols == {"SIRC", "SIRC15", "SIRC20"}

SircHighBytes == {0, 1, 128, 255}

SircCommandBytes == {85, 149}

CodecCalls ==
  {CodecCall(p, a, c, r) :
     p \in ProtocolInputs, a \in AddressInputs, c \in CommandInputs, r \in RawInputs}
  \cup
  {CodecCall("NEC", <<ByteToken(x[1]), ByteToken(0)>>,
             <<ByteToken(x[2]), ByteToken(0)>>, NoStr) : x \in BytePairs}
  \cup
  {CodecCall("NEC", a, c, NoStr) :
     a \in UNION {ByteStrings(x) : x \in SampleBytes},
     c \in UNION {ByteStrings(x) : x \in SampleBytes}}
  \cup
  {CodecCall("Samsung32", <<ByteToken(x[1]), ByteToken(0)>>,
             <<ByteToken(x[2]), ByteToken(0)>>, NoStr) : x \in BytePairs}
  \cup
  {CodecCall(p, <<ByteToken(lo), ByteToken(hi), ByteToken(0), ByteToken(0)>>,
             <<ByteToken(c), ByteToken(0), ByteToken(0), ByteToken(0)>>, NoStr) :
     p \in SircProtocols, lo \in SampleBytes, hi \in SircHighBytes,
     c \in SampleBytes \cup SircCommandBytes}

\* The widths _convert_sirc reverses at (SIRC, SIRC15, SIRC20).
SircWidths == {12, 15, 20}

\* The n-bit values tried have at most SampleBits significant bits at the low
\* end, or at the high end, or are the complement of such a value.
SampleBits == 10

WidthSamples(n) ==
  LET low == 0 .. (2 ^ (IF n < SampleBits THEN n ELSE SampleBits) - 1)
      up == IF n < SampleBits THEN 0 ELSE n - SampleBits
  IN low \cup {Shl(v, up) : v \in low} \cup {2 ^ n - 1 - v : v \in low}

\* A value about to be reversed twice: in is the value, mid its reversal,
\* val the current value, k the number of reversals made.
ReverseCall(op, n, v) ==
  [op |-> op, n |-> n, in |-> v, mid |-> v, val |-> v, k |-> 0]

ReverseCalls ==
  {ReverseCall("reverse_bits", 8, b) : b \in Bytes}
  \cup UNION {{ReverseCall("reverse_bits_n", n, v) : v \in WidthSamples(n)} :
               n \in SircWidths}

\* _reverse_bits is applied to the current value.
ReverseBits ==
  /\ codec.op = "reverse_bits"
  /\ codec.k < 2
  /\ LET out == reverse_bits(codec.val)
     IN codec' = [codec EXCEPT !.val = out, !.k = codec.k + 1,
                    !.mid = IF codec.k = 0 THEN out ELSE codec.mid]
  /\ UNCHANGED <<engineVars, capture, tx, loop>>

\* _reverse_bits_n is applied to the current value.
ReverseBitsN ==
  /\ codec.op = "reverse_bits_n"
  /\ codec.k < 2
  /\ LET out == reverse_bits_n(codec.val, codec.n)
     IN codec' = [codec EXCEPT !.val = out, !.k = codec.k + 1,
                    !.mid = IF codec.k = 0 THEN out ELSE codec.mid]
  /\ UNCHANGED <<engineVars, capture, tx, loop>>

\* convert_code is called and returns (or raises).
ConvertCode ==
  /\ codec.op = "convert_code"
  /\ ~codec.done
  /\ codec' = [codec EXCEPT
                 !.done = TRUE,
                 !.out = convert_code(codec.protocol, codec.address,
                                      codec.command, codec.raw_data)]
  /\ UNCHANGED <<engineVars, capture, tx, loop>>

\* ------------------------------- esphome_client.py (capture of a code)
\* Texts are sequences of pieces; NoText is None.
NoText == <<"None">>

\* The protocols whose log line carries two groups, and one group.
TwoGroupProtocols ==
  {"NEC", "Samsung36", "Sony", "RC5", "RC6", "LG", "Panasonic", "Dish"}

OneGroupProtocols == {"Samsung", "Pioneer", "JVC", "Coolix"}

DecodedProtocols == TwoGroupProtocols \cup OneGroupProtocols

\* _PROTOCOL_PRIORITY
PROTOCOL_PRIORITY ==
  [p \in DecodedProtocols \cup {"Pronto"} |->
     CASE p = "NEC" -> 1
       [] p \in {"Samsung", "Samsung36"} -> 2
       [] p = "Sony" -> 3
       [] p = "RC5" -> 4
       [] p = "RC6" -> 5
       [] p \in {"LG", "Panasonic", "Pioneer", "JVC", "Dish", "Coolix"} -> 6
       [] p = "Pronto" -> 7]

\* self._PROTOCOL_PRIORITY.get(p["protocol"], 99)
SortKey(p) ==
  IF p.protocol \in DOMAIN PROTOCOL_PRIORITY THEN PROTOCOL_PRIORITY[p.protocol]
  ELSE 99

\* len(parts) >= 8: the fewest words of a Pronto payload that is kept.
PRONTO_MIN_WORDS == 8

\* A log line "... Received <tag>: ..." with the texts its two groups would
\* match (empty when the line has no such text) and, after "data=", the
\* words of a Pronto payload.  A line without "Received" has tag "".
LogLine(tag, g1, g2, words) == [tag |-> tag, g1 |-> g1, g2 |-> g2, words |-> words]

\* str.upper() on the tags of the lines drawn (re.IGNORECASE).
UpperTag(tag) == IF tag = "nec" THEN "NEC" ELSE tag

\* ir_pattern.search(line): "Received <protocol>:" in any letter case.
ir_pattern(line) == UpperTag(line.tag) \in DecodedProtocols \cup {"Pronto"}

\* The entry _parse_ir_logs appends for a line one of the twelve protocol
\* patterns matches.
Decoding(line) ==
  LET entry(address, command, raw_data) ==
        [protocol |-> line.tag, address |-> address, command |-> command,
         raw_data |-> raw_data]
  IN CASE line.tag \in {"NEC", "Samsung36", "RC5", "RC6", "LG", "Panasonic", "Dish"} ->
            entry(<<line.g1>>, <<line.g2>>, NoText)
       [] line.tag = "Samsung" -> entry(NoText, NoText, <<line.g1>>)
       [] line.tag = "Sony" -> entry(NoText, NoText, <<line.g1, ":", line.g2>>)
       [] line.tag = "Pioneer" -> entry(<<line.g1>>, NoText, NoText)
       [] line.tag \in {"JVC", "Coolix"} -> entry(NoText, <<line.g1>>, NoText)

\* Variant of ParseLine that keeps every Pronto payload, against C17.
ParseLineAnyPronto(line) ==
  IF /\ line.tag \in DecodedProtocols
     /\ line.g1 # ""
     /\ line.tag \in TwoGroupProtocols => line.g2 # ""
  THEN <<Decoding(line)>>
  ELSE IF line.tag = "Pronto" /\ line.words # <<>>
  THEN <<[protocol |-> "Pronto", address |-> NoText, command |-> NoText,
          raw_data |-> line.words]>>
  ELSE <<>>

\* The body of the loop of _parse_ir_logs: what one line adds to parsed.
\* The patterns are case sensitive and each group needs one digit or more;
\* "data=\s*(.+)" needs one word or more.
ParseLine(line) ==
  IF /\ line.tag \in DecodedProtocols
     /\ line.g1 # ""
     /\ line.tag \in TwoGroupProtocols => line.g2 # ""
  THEN <<Decoding(line)>>
  ELSE IF line.tag = "Pronto" /\ line.words # <<>>
  THEN IF Len(line.words) >= PRONTO_MIN_WORDS
       THEN <<[protocol |-> "Pronto", address |-> NoText, command |-> NoText,
               raw_data |-> line.words]>>
       ELSE <<>>
  ELSE <<>>

\* for line in log_lines: ...
RECURSIVE ParseLines(_)
ParseLines(log_lines) ==
  IF log_lines = <<>> THEN <<>>
  ELSE ParseLine(Head(log_lines)) \o ParseLines(Tail(log_lines))

\* Variant of InsertByKey that puts an entry before the entries of equal
\* key, against C16.
RECURSIVE InsertBeforeEqual(_, _)
InsertBeforeEqual(sorted, p) ==
  IF sorted = <<>> THEN <<p>>
  ELSE IF SortKey(Head(sorted)) < SortKey(p)
  THEN <<Head(sorted)>> \o InsertBeforeEqual(Tail(sorted), p)
  ELSE <<p>> \o sorted

\* list.sort is stable: an entry goes after the entries of lower or equal key.
RECURSIVE InsertByKey(_, _)
InsertByKey(sorted, p) ==
  IF sorted = <<>> THEN <<p>>
  ELSE IF SortKey(Head(sorted)) <= SortKey(p)
  THEN <<Head(sorted)>> \o InsertByKey(Tail(sorted), p)
  ELSE <<p>> \o sorted

\* parsed.sort(key=...)
RECURSIVE SortByPriority(_)
SortByPriority(parsed) ==
  IF parsed = <<>> THEN <<>>
  ELSE InsertByKey(SortByPriority(SubSeq(parsed, 1, Len(parsed) - 1)),
                   parsed[Len(parsed)])

\* Variant of FirstPronto that takes the last Pronto entry, against C18.
LastPronto(parsed) ==
  LET prontos == SelectSeq(parsed, LAMBDA p : p.protocol = "Pronto")
  IN IF prontos = <<>> THEN NoText ELSE prontos[Len(prontos)].raw_data

\* for p in parsed: if p["protocol"] == "Pronto": pronto = p["raw_data"]; break
FirstPronto(parsed) ==
  LET prontos == SelectSeq(parsed, LAMBDA p : p.protocol = "Pronto")
  IN IF prontos = <<>> THEN NoText ELSE prontos[1].raw_data

\* Variant of parse_ir_logs that reports the failure as a success without a
\* protocol, against C19.
parse_ir_logs_no_failure(log_lines) ==
  LET parsed == SortByPriority(ParseLines(log_lines))
  IN IF parsed = <<>>
     THEN [success |-> TRUE, protocol |-> "None", address |-> NoText,
           command |-> NoText, raw_data |-> NoText, pronto |-> NoText]
     ELSE [success |-> TRUE, protocol |-> parsed[1].protocol,
           address |-> parsed[1].address, command |-> parsed[1].command,
           raw_data |-> parsed[1].raw_data, pronto |-> FirstPronto(parsed)]

\* ESPHomeIRClient._parse_ir_logs (the display text is left out)
parse_ir_logs(log_lines) ==
  LET unsorted == ParseLines(log_lines)
      parsed == SortByPriority(unsorted)
      best == parsed[1]
      pronto == FirstPronto(parsed)
  IN IF unsorted = <<>>
     THEN [success |-> FALSE,
           error |-> "IR signal detected but could not parse protocol."]
     ELSE [success |-> TRUE, protocol |-> best.protocol,
           address |-> best.address, command |-> best.command,
           raw_data |-> best.raw_data,
           pronto |-> IF best.protocol = "Pronto"
                      THEN (IF pronto # NoText THEN pronto ELSE best.raw_data)
                      ELSE pronto]

\* No result yet.
Pending == [success |-> FALSE, error |-> ""]

\* listen_for_ir has not been called.  parsed is the list _parse_ir_logs
\* builds, before it is sorted.
CaptureIdle ==
  [pc |-> "idle", log_lines |-> <<>>, first_ir |-> FALSE, subscribed |-> FALSE,
   unsubs |-> 0, parsed |-> <<>>, result |-> Pending]

\* ----------------------------------------------------- capture inputs
\* The most lines logged during one call of listen_for_ir.
MaxLines == 3

\* A Pronto payload of n words, the first being word.
ProntoWords(word, n) == [i \in 1 .. n |-> IF i = 1 THEN word ELSE "0000"]

\* The lines the receiver logs: one decoding per protocol (for NEC a frame
\* whose high bytes complement the low ones and an extended frame whose high
\* bytes do not), Pronto payloads of 3, 8 and 9 words and an empty one, an
\* NEC line without digits, a line in the wrong letter case, and a line of
\* another component.
LogLines ==
  { LogLine("NEC", "FB04", "F708", <<>>),
    LogLine("NEC", "1234", "5678", <<>>),
    LogLine("Samsung", "E0E040BF", "", <<>>),
    LogLine("Samsung36", "0400", "E00FF", <<>>),
    LogLine("Sony", "A90", "12", <<>>),
    LogLine("RC5", "05", "0C", <<>>),
    LogLine("RC6", "00", "0D", <<>>),
    LogLine("LG", "20DF10EF", "32", <<>>),
    LogLine("Panasonic", "4004", "100BCBD", <<>>),
    LogLine("Pioneer", "A55A", "", <<>>),
    LogLine("JVC", "C5E8", "", <<>>),
    LogLine("Dish", "1C", "10", <<>>),
    LogLine("Coolix", "B27BE0", "", <<>>),
    LogLine("Pronto", "", "", ProntoWords("0000", 3)),
    LogLine("Pronto", "", "", ProntoWords("0000", 8)),
    LogLine("Pronto", "", "", ProntoWords("0100", 9)),
    LogLine("Pronto", "", "", <<>>),
    LogLine("NEC", "", "", <<>>),
    LogLine("nec", "FB04", "F708", <<>>),
    LogLine("", "", "", <<>>) }

\* listen_for_ir is called: it subscribes to the logs and waits.
Listen ==
  /\ capture.pc = "idle"
  /\ capture' = [capture EXCEPT !.pc = "waiting", !.subscribed = TRUE]
  /\ UNCHANGED <<engineVars, codec, tx, loop>>

\* _on_log: a line is logged while the subscription is active.
OnLog(line) ==
  /\ capture.subscribed
  /\ Len(capture.log_lines) < MaxLines
  /\ capture' = [capture EXCEPT
                   !.log_lines = Append(@, line),
                   !.first_ir = @ \/ ir_pattern(line)]
  /\ UNCHANGED <<engineVars, codec, tx, loop>>

\* Variant of the timeout exit that returns without calling unsub().
TimeoutLeaking ==
  /\ capture.pc = "waiting"
  /\ ~capture.first_ir
  /\ capture' = [capture EXCEPT
                   !.pc = "done",
                   !.result = [success |-> FALSE,
                               error |-> "No IR signal detected within timeout."]]
  /\ UNCHANGED <<engineVars, codec, tx, loop>>

\* asyncio.wait_for(first_ir.wait(), timeout) times out.
Timeout ==
  /\ capture.pc = "waiting"
  /\ ~capture.first_ir
  /\ capture' = [capture EXCEPT
                   !.pc = "done",
                   !.result = [success |-> FALSE,
                               error |-> "No IR signal detected within timeout."],
                   !.subscribed = FALSE,
                   !.unsubs = @ + 1]
  /\ UNCHANGED <<engineVars, codec, tx, loop>>

\* first_ir is set: the wait returns and asyncio.sleep(0.5) begins.
Collect ==
  /\ capture.pc = "waiting"
  /\ capture.first_ir
  /\ capture' = [capture EXCEPT !.pc = "collecting"]
  /\ UNCHANGED <<engineVars, codec, tx, loop>>

\* The sleep ends: return self._parse_ir_logs(log_lines); finally unsub().
ParseIrLogs ==
  /\ capture.pc = "collecting"
  /\ capture' = [capture EXCEPT
                   !.pc = "done",
                   !.parsed = ParseLines(capture.log_lines),
                   !.result = parse_ir_logs(capture.log_lines),
                   !.subscribed = FALSE,
                   !.unsubs = @ + 1]
  /\ UNCHANGED <<engineVars, codec, tx, loop>>

\* ------------------------------------- main.py (requests that transmit)
\* The requests in flight at once.
Requests == {"r1", "r2"}

\* session.power_candidates (and button_candidates) of the session the
\* requests are about, as the catalogue stores them: codes that convert
\* (the last a Sony code), one of a protocol without converter, and a
\* Samsung36 code, whose converter raises ValueError on the stored form.
TxCandidates ==
  << [protocol |-> "NEC", address |-> <<ByteToken(4), ByteToken(0)>>,
      command |-> <<ByteToken(8), ByteToken(0)>>, raw_data |-> NoStr],
     [protocol |-> "RCMM", address |-> NoStr, command |-> NoStr,
      raw_data |-> NoStr],
     [protocol |-> "Samsung36", address |-> <<ByteToken(4), ByteToken(0)>>,
      command |-> <<ByteToken(8), ByteToken(0)>>, raw_data |-> NoStr],
     [protocol |-> "RC5", address |-> <<ByteToken(5), ByteToken(0)>>,
      command |-> <<ByteToken(12), ByteToken(0)>>, raw_data |-> NoStr],
     [protocol |-> "SIRC", address |-> <<ByteToken(1), ByteToken(0)>>,
      command |-> <<ByteToken(21), ByteToken(0)>>, raw_data |-> NoStr] >>

\* A request that has not arrived.  log lists what became of each code the
\* request came to, response is what the handler answers.
NoRequest ==
  [kind |-> "none", pc |-> "idle", indices |-> <<>>, k |-> 1, sent |-> FALSE,
   repeat |-> 1, calls |-> 0, log |-> <<>>, response |-> "none"]

\* A request of the given kind that will send the codes at indices,
\* starting at pc.
NewRequest(kind, pc, indices) ==
  [NoRequest EXCEPT !.kind = kind, !.pc = pc, !.indices = indices]

\* No request has arrived; the client is connected.
TxIdle == [req |-> [r \in Requests |-> NoRequest], connected |-> TRUE]

\* The index lists _blast_candidates is called with (session.narrowing_tested).
BlastIndices == {<<0>>, <<0, 1>>, <<1, 3>>, <<2, 3>>, <<3, 4>>}

\* The handlers that sleep after each code.
Blasts == {"bulk_blast", "blast_candidates"}

\* What a handler answers when its sends are over, whatever they returned.
Answered(kind) ==
  CASE kind = "bulk_blast" -> "Pulse sequence complete."
    [] kind = "blast_candidates" -> "narrow.html"
    [] kind = "pick_button_test" -> "button_picker.html testing"
    [] kind = "send_test" -> "discovery.html sent"

\* What comes of an exception raised inside the handler: bulk_blast answers
\* 500 "Blast failed", _blast_candidates logs it and returns, the two test
\* handlers do not catch it.
Excepted(kind) ==
  CASE kind = "bulk_blast" -> "Blast failed"
    [] kind = "blast_candidates" -> "narrow.html"
    [] kind \in {"pick_button_test", "send_test"} -> "Internal Server Error"

\* bulk_blast arrives: it will send every power candidate in order.
BulkBlast(r) ==
  /\ tx.req[r].pc = "idle"
  /\ tx' = [tx EXCEPT !.req[r] =
              NewRequest("bulk_blast", "connect", Range(Len(TxCandidates)))]
  /\ UNCHANGED <<engineVars, codec, capture, loop>>

\* _blast_candidates(session, indices) is called by bulk_confirm or
\* narrow_confirm.
BlastCandidates(r, indices) ==
  /\ tx.req[r].pc = "idle"
  /\ tx' = [tx EXCEPT !.req[r] =
              NewRequest("blast_candidates", "connect", indices)]
  /\ UNCHANGED <<engineVars, codec, capture, loop>>

\* pick_button_test arrives: one code, or none when button_idx is out of
\* range.
PickButtonTest(r, button_idx) ==
  /\ tx.req[r].pc = "idle"
  /\ tx' = [tx EXCEPT !.req[r] =
              IF 0 <= button_idx /\ button_idx < Len(TxCandidates)
              THEN NewRequest("pick_button_test", "next", <<button_idx>>)
              ELSE [NewRequest("pick_button_test", "done", <<>>)
                      EXCEPT !.response = "button_picker.html"]]
  /\ UNCHANGED <<engineVars, codec, capture, loop>>

\* send_test arrives in phase Identify with the cursor at idx: the current
\* candidate is sent.
SendTest(r, idx) ==
  /\ tx.req[r].pc = "idle"
  /\ tx' = [tx EXCEPT !.req[r] = NewRequest("send_test", "next", <<idx>>)]
  /\ UNCHANGED <<engineVars, codec, capture, loop>>

\* await ir_client.connect() returns.
ClientConnect(r) ==
  /\ tx.req[r].pc = "connect"
  /\ tx' = [tx EXCEPT !.req[r].pc = "next", !.connected = TRUE]
  /\ UNCHANGED <<engineVars, codec, capture, loop>>

\* The loop reaches its next code and calls ir_client.send_ir_code: a code
\* that converts goes to execute_service (send_command connects first when
\* the client is not connected), one without converter is only logged, and
\* a ValueError raised by the converter leaves the loop; after the last
\* code a blast disconnects and a test answers.
SendIrCode(r) ==
  LET q == tx.req[r]
      idx == q.indices[q.k]
      candidate == At(TxCandidates, idx)
      cmd == convert_code(candidate.protocol, candidate.address,
                          candidate.command, candidate.raw_data)
  IN /\ q.pc = "next"
     /\ tx' = IF q.k > Len(q.indices)
              THEN IF q.kind \in Blasts
                   THEN [tx EXCEPT !.req[r].pc = "disconnect"]
                   ELSE [tx EXCEPT !.req[r].pc = "done",
                                   !.req[r].response = Answered(q.kind)]
              ELSE IF cmd = ValueError
              THEN [tx EXCEPT
                      !.req[r].sent = FALSE,
                      !.req[r].log = Append(@, [idx |-> idx, out |-> "raised"]),
                      !.req[r].pc = "done",
                      !.req[r].response = Excepted(q.kind)]
              ELSE IF cmd = NoCommand
              THEN [tx EXCEPT
                      !.req[r].sent = FALSE,
                      !.req[r].log = Append(@, [idx |-> idx, out |-> "unsupported"]),
                      !.req[r].pc = IF q.kind \in Blasts THEN "sleep" ELSE "done",
                      !.req[r].response =
                         IF q.kind \in Blasts THEN @ ELSE Answered(q.kind)]
              ELSE [tx EXCEPT !.req[r].sent = TRUE,
                              !.req[r].pc = "sending",
                              !.req[r].repeat = cmd.repeat,
                              !.req[r].calls = 0,
                              !.connected = TRUE]
     /\ UNCHANGED <<engineVars, codec, capture, loop>>

\* execute_service, called once by send_command whatever cmd.repeat is,
\* returns (ok) or raises, which send_command catches and turns into False;
\* the handlers do not look at what send_ir_code returns: a blast goes on
\* to asyncio.sleep(0.8), a test answers.
ExecuteService(r, ok) ==
  LET q == tx.req[r]
  IN /\ q.pc = "sending"
     /\ tx' = [tx EXCEPT
                 !.req[r].calls = @ + 1,
                 !.req[r].log = Append(@, [idx |-> q.indices[q.k],
                                           out |-> IF ok THEN "sent" ELSE "failed"]),
                 !.req[r].pc = IF q.kind \in Blasts THEN "sleep" ELSE "done",
                 !.req[r].response =
                    IF q.kind \in Blasts THEN @ ELSE Answered(q.kind)]
     /\ UNCHANGED <<engineVars, codec, capture, loop>>

\* asyncio.sleep(0.8) ends: the loop goes to the next index.
Settle(r) ==
  /\ tx.req[r].pc = "sleep"
  /\ tx' = [tx EXCEPT !.req[r].pc = "next", !.req[r].k = @ + 1,
                      !.req[r].sent = FALSE]
  /\ UNCHANGED <<engineVars, codec, capture, loop>>

\* await ir_client.disconnect() returns and the handler answers.
ClientDisconnect(r) ==
  /\ tx.req[r].pc = "disconnect"
  /\ tx' = [tx EXCEPT !.req[r].pc = "done",
                      !.req[r].response = Answered(tx.req[r].kind),
                      !.connected = FALSE]
  /\ UNCHANGED <<engineVars, codec, capture, loop>>

\* ------------------------- main.py (requests that change a session)
\* The methods of DiscoveryEngine that are coroutines: none, they are all
\* plain functions, so a call of one never gives the event loop back
\* before it returns.
EngineCoroutinesAll ==
  {"confirm_bulk_blast", "narrow_confirm", "confirm_power_code",
   "skip_to_results"}

EngineCoroutines == {}

\* The handlers that call a state-changing engine method, and the method.
LoopHandlers == {"bulk_confirm", "narrow_confirm", "confirm", "skip_to_results"}

MethodOf(handler) ==
  CASE handler = "bulk_confirm" -> "confirm_bulk_blast"
    [] handler = "narrow_confirm" -> "narrow_confirm"
    [] handler = "confirm" -> "confirm_power_code"
    [] handler = "skip_to_results" -> "skip_to_results"

\* What the handler's engine call makes of session x.
HandlerOp(handler, x, worked) ==
  CASE handler = "bulk_confirm" -> confirm_bulk_blast(x, worked)
    [] handler = "narrow_confirm" -> narrow_confirm(x, worked)
    [] handler = "confirm" -> confirm(x, worked)
    [] handler = "skip_to_results" -> skip_to_results(x)

\* Requests served in one behaviour.
MaxServed == 3

\* A request that has not arrived.  seen is the session as the engine
\* method read it (empty before it has).
NoCall ==
  [handler |-> "none", pc |-> "idle", sid |-> None, worked |-> FALSE,
   seen |-> <<>>]

\* No request has arrived and the event loop runs nothing.
LoopIdle ==
  [running |-> None, served |-> 0, req |-> [r \in Requests |-> NoCall]]

\* No request has been made yet: the wizard is still being set up.
LoopQuiet == loop.served = 0

\* A POST for session sid arrives and its handler is scheduled.
Arrive(r, handler, sid, worked) ==
  /\ loop.req[r].pc \in {"idle", "done"}
  /\ loop.served < MaxServed
  /\ sid \in DOMAIN sessions
  /\ loop' = [loop EXCEPT
                !.served = @ + 1,
                !.req[r] = [handler |-> handler, pc |-> "ready", sid |-> sid,
                            worked |-> worked, seen |-> <<>>]]
  /\ UNCHANGED <<engineVars, codec, capture, tx>>

\* The event loop runs the handler: engine.get_session, then the engine
\* method starts and reads the session.  The loop stays with the handler
\* unless the method is a coroutine.
EnterOperation(r) ==
  LET q == loop.req[r]
      g == IF q.handler = "skip_to_results"
           THEN [store |-> sessions, found |-> q.sid \in DOMAIN sessions]
           ELSE get_session(sessions, q.sid, now)
  IN /\ q.pc = "ready"
     /\ loop.running = None
     /\ IF g.found
        THEN /\ loop' = [loop EXCEPT
                           !.running = IF MethodOf(q.handler) \in EngineCoroutines
                                       THEN None ELSE r,
                           !.req[r].pc = "op",
                           !.req[r].seen = <<g.store[q.sid]>>]
             /\ sessions' = g.store
             /\ touched' = [s \in DOMAIN g.store |-> touched[s]]
             /\ UNCHANGED <<last, run>>
        ELSE /\ loop' = [loop EXCEPT !.req[r].pc = "done"]
             /\ Fail(g.store, q.handler, q.sid, Answer(q.worked),
                     IF q.handler = "skip_to_results" THEN "KeyError"
                     ELSE "redirect")
     /\ UNCHANGED <<now, codec, capture, tx>>

\* The engine method writes the session it read and returns; the handler
\* then awaits _blast_candidates when the session is narrowing, and
\* answers otherwise: either way the event loop is free again.
CompleteOperation(r) ==
  LET q == loop.req[r]
      res == HandlerOp(q.handler, q.seen[1], q.worked)
  IN /\ q.pc = "op"
     /\ loop.running \in {None, r}
     /\ q.sid \in DOMAIN sessions
     /\ Apply(sessions, MethodOf(q.handler), q.sid, Answer(q.worked),
              q.seen[1], res)
     /\ loop' = [loop EXCEPT
                   !.running = None,
                   !.req[r].pc =
                      IF /\ q.handler \in {"bulk_confirm", "narrow_confirm"}
                         /\ res.ses.phase = "narrowing"
                      THEN "blast" ELSE "done"]
     /\ UNCHANGED <<now, codec, capture, tx>>

\* _blast_candidates has sent the tested subset and the handler answers.
BlastDone(r) ==
  /\ loop.req[r].pc = "blast"
  /\ loop.running = None
  /\ loop' = [loop EXCEPT !.req[r].pc = "done"]
  /\ UNCHANGED <<engineVars, codec, capture, tx>>

\* ---------------------------------------------------------- specification
Init ==
  /\ sessions = <<>>
  /\ now = 0
  /\ last = Call("init", None, "", "ok")
  /\ run = IdleRun
  /\ touched = <<>>
  /\ codec = CodecIdle
  /\ capture = CaptureIdle
  /\ tx = TxIdle
  /\ loop = LoopIdle

\* The part of the state space explored: session sid holds at most k
\* confirmed buttons and its cursors run at most MaxOvershoot past the end.
Explored(sid, k) ==
  sid \in DOMAIN sessions =>
    /\ Len(sessions[sid].confirmed_buttons) <= k
    /\ sessions[sid].current_candidate_idx
         <= Len(sessions[sid].power_candidates) + MaxOvershoot
    /\ sessions[sid].current_button_idx
         <= Len(sessions[sid].button_candidates) + MaxOvershoot

WizardIds == {"s1"}

\* One session driven through the operations of DiscoveryEngine, in any
\* order and with any answers.
Next ==
  \E sid \in WizardIds :
    \/ CreateSession(sid)
    \/ \E d \in DeviceTypeInputs : SetDeviceType(sid, d)
    \/ \E b \in BrandInputs : SetBrand(sid, b)
    \/ \E w \in BOOLEAN : ConfirmPowerCode(sid, w) /\ Explored(sid, MaxConfirmed)'
    \/ \E w \in BOOLEAN : ConfirmBulkBlast(sid, w) /\ Explored(sid, MaxConfirmed)'
    \/ StartNarrowing(sid)
    \/ \E w \in BOOLEAN : NarrowConfirm(sid, w) /\ Explored(sid, MaxConfirmed)'
    \/ \E w \in BOOLEAN : ConfirmButton(sid, w) /\ Explored(sid, MaxConfirmed)'
    \/ SkipToResults(sid)

Spec == Init /\ [][Next]_vars

\* One session driven through the engine operations and the request
\* handlers of main.py that change a session, on the one-candidate brand.
AppBrandInputs == {"Bolt"}

NextApp ==
  \E sid \in WizardIds :
    \/ CreateSession(sid)
    \/ \E p \in Profiles : EditDevice(sid, p)
    \/ Connect(sid)
    \/ \E d \in DeviceTypeInputs : SetDeviceType(sid, d)
    \/ \E b \in AppBrandInputs : SetBrand(sid, b)
    \/ \E w \in BOOLEAN : Confirm(sid, w) /\ Explored(sid, MaxConfirmed + 1)'
    \/ \E w \in BOOLEAN : BulkConfirm(sid, w) /\ Explored(sid, MaxConfirmed + 1)'
    \/ \E w \in BOOLEAN :
         NarrowConfirmRequest(sid, w) /\ Explored(sid, MaxConfirmed + 1)'
    \/ \E w \in BOOLEAN : ConfirmButton(sid, w) /\ Explored(sid, MaxConfirmed + 1)'
    \/ SkipToResults(sid)
    \/ \E i \in 0 .. MaxConfirmed + 1 :
         PickButtonSave(sid, i) /\ Explored(sid, MaxConfirmed + 1)'
    \/ \E i \in 0 .. MaxConfirmed + 1 : PickButtonDelete(sid, i)
    \/ LearnMode(sid)
    \/ \E n \in LearnNames, c \in Captures :
         LearnSave(sid, n, c) /\ Explored(sid, MaxConfirmed + 1)'
    \/ \E i \in 0 .. MaxConfirmed + 1 : LearnDelete(sid, i)
    \/ LearnBackToPicker(sid)
    \/ LearnDone(sid)

SpecApp == Init /\ [][NextApp]_vars

\* Two session ids and the clock: sessions are created, looked up and
\* evicted; the engine operations are called with the first id only, on the
\* one-candidate brand.
StoreIds == {"s1", "s2"}

StoreBrandInputs == {"Bolt"}

NextStore ==
  \/ Tick
  \/ \E sid \in StoreIds : CreateSession(sid)
  \/ \E sid \in StoreIds : GetSession(sid)
  \/ \E sid \in WizardIds :
       \/ \E d \in DeviceTypeInputs : SetDeviceType(sid, d)
       \/ \E b \in StoreBrandInputs : SetBrand(sid, b)
       \/ \E w \in BOOLEAN : ConfirmPowerCode(sid, w) /\ Explored(sid, MaxConfirmed)'
       \/ \E w \in BOOLEAN : ConfirmBulkBlast(sid, w) /\ Explored(sid, MaxConfirmed)'
       \/ StartNarrowing(sid)
       \/ \E w \in BOOLEAN : NarrowConfirm(sid, w) /\ Explored(sid, MaxConfirmed)'
       \/ \E w \in BOOLEAN : ConfirmButton(sid, w) /\ Explored(sid, MaxConfirmed)'
       \/ SkipToResults(sid)

SpecStore == Init /\ [][NextStore]_vars

\* The codec: one call of convert_code on arguments drawn from the inputs.
InitCodec ==
  /\ sessions = <<>>
  /\ now = 0
  /\ last = Call("init", None, "", "ok")
  /\ run = IdleRun
  /\ touched = <<>>
  /\ codec \in CodecCalls \cup ReverseCalls
  /\ capture = CaptureIdle
  /\ tx = TxIdle
  /\ loop = LoopIdle

NextCodec ==
  \/ ConvertCode
  \/ ReverseBits
  \/ ReverseBitsN

SpecCodec == InitCodec /\ [][NextCodec]_vars

\* One call of listen_for_ir, over every sequence of at most MaxLines lines.
NextCapture ==
  \/ Listen
  \/ \E line \in LogLines : OnLog(line)
  \/ Timeout
  \/ Collect
  \/ ParseIrLogs

SpecCapture == Init /\ [][NextCapture]_vars

\* Requests that transmit, interleaved at their awaits by the event loop.
NextTransmit ==
  \E r \in Requests :
    \/ BulkBlast(r)
    \/ \E indices \in BlastIndices : BlastCandidates(r, indices)
    \/ \E button_idx \in 0 .. Len(TxCandidates) : PickButtonTest(r, button_idx)
    \/ \E idx \in 0 .. Len(TxCandidates) - 1 : SendTest(r, idx)
    \/ ClientConnect(r)
    \/ SendIrCode(r)
    \/ \E ok \in BOOLEAN : ExecuteService(r, ok)
    \/ Settle(r)
    \/ ClientDisconnect(r)

SpecTransmit == Init /\ [][NextTransmit]_vars

\* One session set up through the engine, then up to MaxServed requests
\* that change it, arriving at any time and run by the one event loop.
LoopBrandInputs == {"Acme", "_unknown"}

NextLoop ==
  \/ \E sid \in WizardIds :
       \/ LoopQuiet /\ CreateSession(sid)
       \/ \E d \in DeviceTypeInputs : LoopQuiet /\ SetDeviceType(sid, d)
       \/ \E b \in LoopBrandInputs : LoopQuiet /\ SetBrand(sid, b)
       \/ \E r \in Requests, h \in LoopHandlers, w \in BOOLEAN :
            Arrive(r, h, sid, w)
  \/ \E r \in Requests :
       \/ EnterOperation(r)
       \/ CompleteOperation(r) /\ Explored(loop.req[r].sid, MaxConfirmed)'
       \/ BlastDone(r)

SpecLoop == Init /\ [][NextLoop]_vars


\* ============================================================ properties
\* A narrowing run is under way (or has just ended) and at least one
\* candidate fits every answer given in it.
Consistent == run.st # "idle" /\ run.cons # {}

C2_ResolvesToWorkingCandidate ==
  (Consistent /\ run.n >= 2) =>
    LET x == sessions[run.sid]
    IN /\ run.st \in {"narrowing", "resolved"}
       /\ run.st = "narrowing" => run.cons \subseteq Elems(x.narrowing_pool)
       /\ run.st = "resolved" =>
            \E t \in run.cons :
              /\ run.cons = {t}
              /\ x.narrowing_pool = <<t>>
              /\ x.matched_device_ids = At(x.power_candidates, t).device_ids
              /\ x.confirmed_buttons # <<>>
              /\ x.confirmed_buttons[Len(x.confirmed_buttons)] =
                   PowerButton(At(x.power_candidates, t))

\* Two candidates, pool [0, 1], tested [0], answer no: resolved to the second
\* candidate, matched ids [3].
C2_Witness ==
  /\ Consistent
  /\ run.st = "resolved"
  /\ run.n = 2
  /\ run.cons = {1}
  /\ sessions[run.sid].matched_device_ids = <<3>>

\* C3: every narrow_confirm call made while the pool has more than one
\* element leaves narrowing_pool strictly smaller, whatever the answer.
C3_PoolStrictlyShrinks ==
  [][\A sid \in DOMAIN sessions :
       ( /\ last'.op = "narrow_confirm"
         /\ last'.sid = sid
         /\ Len(sessions[sid].narrowing_pool) > 1 )
       => Len(sessions'[sid].narrowing_pool) < Len(sessions[sid].narrowing_pool)
    ]_vars

\* narrow_confirm has just cut a pool down to one that still has two or more
\* elements.
C3_Witness ==
  /\ last.op = "narrow_confirm"
  /\ last.res = "ok"
  /\ last.sid \in DOMAIN sessions
  /\ sessions[last.sid].phase = "narrowing"
  /\ Len(sessions[last.sid].narrowing_pool) >= 2
  /\ run.calls >= 1

\* C4, as the code behaves: in every state whose phase is Narrowing, every
\* index of narrowing_tested is in narrowing_pool.
C4_TestedWithinPoolWhileNarrowing ==
  \A sid \in DOMAIN sessions :
    sessions[sid].phase = "narrowing" =>
      Elems(sessions[sid].narrowing_tested) \subseteq Elems(sessions[sid].narrowing_pool)

\* narrow_confirm has prepared another round with a subset to test.
C4_Witness ==
  /\ last.op = "narrow_confirm"
  /\ last.sid \in DOMAIN sessions
  /\ sessions[last.sid].phase = "narrowing"
  /\ sessions[last.sid].narrowing_tested # <<>>

\* C4 as stated: in every reachable state, the one left behind when
\* narrowing resolves included, narrowing_tested is a subset of
\* narrowing_pool.
C4_AsStated ==
  \A sid \in DOMAIN sessions :
    Elems(sessions[sid].narrowing_tested) \subseteq Elems(sessions[sid].narrowing_pool)

\* C5: no step moves the phase of a session backward in the order Connect,
\* DeviceType, Brand, Identify, Narrowing, MapButtons, Results; Results,
\* the last, is never left.
C5_PhaseNeverMovesBackward ==
  [][\A sid \in DOMAIN sessions \cap DOMAIN sessions' :
       PhaseRank(sessions'[sid].phase) >= PhaseRank(sessions[sid].phase)]_vars

\* C6: confirmed_buttons never holds two entries with the same name.
C6_NoDuplicateNames ==
  \A sid \in DOMAIN sessions :
    LET b == sessions[sid].confirmed_buttons
    IN \A i, j \in 1 .. Len(b) : i # j => b[i].name # b[j].name

\* The operations of DiscoveryEngine that take a session id.
EngineOps ==
  {"set_device_type", "set_brand", "confirm_power_code", "confirm_bulk_blast",
   "start_narrowing", "narrow_confirm", "confirm_button", "skip_to_results"}

\* C7: an engine operation called with an id that is not in the store, or
\* with the id of a session created and last operated on more than
\* SESSION_TTL ago, fails and changes no session.
C7_UnknownOrExpiredFails ==
  [][(last'.op \in EngineOps /\
       (\/ last'.sid \notin DOMAIN sessions
        \/ now - touched[last'.sid] > SESSION_TTL))
     => (last'.res = "KeyError" /\ sessions' = sessions)]_vars

\* C8: a session untouched for longer than SESSION_TTL is never returned by
\* get_session; after create_session no session untouched for longer than
\* SESSION_TTL is in the store, and the new session is stored in phase
\* Connect.
C8_StaleNeverReturnedAndSwept ==
  /\ (last.op = "get_session" /\ last.res = "found") =>
        /\ last.sid \in DOMAIN sessions
        /\ now - touched[last.sid] <= SESSION_TTL
  /\ last.op = "create_session" =>
        /\ \A sid \in DOMAIN sessions : now - touched[sid] <= SESSION_TTL
        /\ last.sid \in DOMAIN sessions
        /\ sessions[last.sid] = WizardSession(now)
        /\ sessions[last.sid].phase = "connect"

\* create_session has just swept a session past the TTL out of the store.
C8_Witness ==
  /\ last.op = "create_session"
  /\ last.res = "swept"
  /\ DOMAIN sessions = {last.sid}

\* C9: a session operated on less than SESSION_TTL ago is returned by
\* get_session and left in the store by create_session, however long ago it
\* was created.
C9_EvictionByIdleTime ==
  [][\A sid \in DOMAIN sessions :
       now - touched[sid] < SESSION_TTL =>
         /\ (last'.op = "get_session" /\ last'.sid = sid) =>
               (last'.res = "found" /\ sid \in DOMAIN sessions')
         /\ last'.op = "create_session" => sid \in DOMAIN sessions'
    ]_vars

\* C10: confirm_bulk_blast on a session in Identify.  Not worked: phase
\* Results, confirmed_buttons and matched_device_ids unchanged.  Worked with
\* one candidate: resolved to it, Power recorded, phase MapButtons.  Worked
\* with n >= 2 candidates: phase Narrowing, pool [0..n), round 1, the first
\* floor(n/2) indices tested.
C10_BulkBlastFromIdentify ==
  [][\A sid \in DOMAIN sessions :
       ( /\ last'.op = "confirm_bulk_blast"
         /\ last'.sid = sid
         /\ sessions[sid].phase = "identify" )
       => LET x == sessions[sid]
              y == sessions'[sid]
              n == Len(x.power_candidates)
          IN /\ last'.arg = "no" =>
                  /\ y.phase = "results"
                  /\ y.confirmed_buttons = x.confirmed_buttons
                  /\ y.matched_device_ids = x.matched_device_ids
             /\ (last'.arg = "yes" /\ n = 1) =>
                  /\ y.phase = "map_buttons"
                  /\ y.matched_device_ids = x.power_candidates[1].device_ids
                  /\ y.confirmed_buttons =
                       Append(x.confirmed_buttons, PowerButton(x.power_candidates[1]))
             /\ (last'.arg = "yes" /\ n >= 2) =>
                  /\ y.phase = "narrowing"
                  /\ y.narrowing_pool = [i \in 1 .. n |-> i - 1]
                  /\ y.narrowing_round = 1
                  /\ y.narrowing_tested = [i \in 1 .. (n \div 2) |-> i - 1]
    ]_vars

\* confirm_bulk_blast(worked) has just taken a session from Identify into
\* Narrowing on three or more candidates.
C10_Witness ==
  /\ last.op = "confirm_bulk_blast"
  /\ last.arg = "yes"
  /\ run.from = "identify"
  /\ run.st = "narrowing"
  /\ run.calls = 0
  /\ run.n >= 3
  /\ sessions[run.sid].phase = "narrowing"


\* The byte a token of two hexadecimal digits writes.
IsByteToken(part) == \E b \in Bytes : ByteToken(b) = part

ByteOf(part) == CHOOSE b \in Bytes : ByteToken(b) = part

\* convert_code has been called on this protocol and has returned or raised.
Converted(protocol) ==
  codec.op = "convert_code" /\ codec.done /\ codec.protocol = protocol

\* C12: NEC conversion of a one-byte address a and a one-byte command c gives
\* a 16-bit address and a 16-bit command whose low byte is the source byte
\* and whose high byte is its complement, 255 - low, on service send_ir_nec;
\* "04 00" and "08 00" give 0xFB04 and 0xF708.
C12_NecComplement ==
  ( /\ Converted("NEC")
    /\ Truthy(codec.address) /\ IsByteToken(codec.address[1])
    /\ Truthy(codec.command) /\ IsByteToken(codec.command[1]) )
  => LET a == ByteOf(codec.address[1])
         c == ByteOf(codec.command[1])
         out == codec.out
     IN /\ out.service = "send_ir_nec"
        /\ out.data.address % 256 = a
        /\ out.data.address \div 256 = 255 - a
        /\ out.data.command % 256 = c
        /\ out.data.command \div 256 = 255 - c
        /\ (a = 4 /\ c = 8) =>
             out.data.address = 64260 /\ out.data.command = 63240

\* convert_code("NEC", "04 00", "08 00") has returned 0xFB04 and 0xF708.
C12_Witness ==
  /\ Converted("NEC")
  /\ codec.address = <<ByteToken(4), ByteToken(0)>>
  /\ codec.command = <<ByteToken(8), ByteToken(0)>>
  /\ codec.out.service = "send_ir_nec"
  /\ codec.out.data = [address |-> 64260, command |-> 63240]


\* The service each entry of PROTOCOL_CONVERTERS transmits on.
ServiceOf(protocol) ==
  CASE protocol \in {"NEC", "NECext", "NEC42", "NEC42ext"} -> "send_ir_nec"
    [] protocol = "Samsung32" -> "send_ir_samsung"
    [] protocol = "Samsung36" -> "send_ir_samsung36"
    [] protocol \in {"RC5", "RC5X"} -> "send_ir_rc5"
    [] protocol = "RC6" -> "send_ir_rc6"
    [] protocol \in {"SIRC", "SIRC15", "SIRC20"} -> "send_ir_sony"
    [] protocol \in {"LG", "LG32"} -> "send_ir_lg"
    [] protocol \in {"Panasonic", "Kaseikyo"} -> "send_ir_panasonic"
    [] protocol = "Pioneer" -> "send_ir_pioneer"
    [] protocol = "JVC" -> "send_ir_jvc"
    [] protocol = "Dish" -> "send_ir_dish"
    [] protocol = "Coolix" -> "send_ir_coolix"

\* The address and the command are in the form the protocol's converter
\* reads: hexadecimal tokens, and for Samsung36 one numeral each.
InProtocolForm(protocol, address, command) ==
  /\ \A i \in 1 .. Len(address) : IsHex(address[i])
  /\ \A i \in 1 .. Len(command) : IsHex(command[i])
  /\ protocol = "Samsung36" => IsNumeral(address) /\ IsNumeral(command)

C15_UnsupportedWithRawSendsRaw ==
  ( /\ codec.op = "convert_code" /\ codec.done
    /\ codec.protocol \notin PROTOCOL_CONVERTERS \cup {"Pronto"}
    /\ Truthy(codec.raw_data) )
  => /\ codec.out.service = "send_ir_raw"
     /\ codec.out.data.code =
          [i \in 1 .. Len(codec.raw_data) |-> IntDec(codec.raw_data[i])]


\* C13: bit reversal is an involution: reverse_bits applied twice to a byte
\* gives the byte back, and for n in {12, 15, 20} and v < 2^n reverse_bits_n
\* applied twice at width n gives v back (the value in between is below 2^n).
C13_ReversalIsInvolution ==
  (codec.op \in {"reverse_bits", "reverse_bits_n"}) =>
    /\ codec.in < 2 ^ codec.n
    /\ codec.k >= 1 => codec.mid < 2 ^ codec.n
    /\ codec.k = 2 => codec.val = codec.in

\* 0x95 reversed at 12 bits is 0xA90, and reversed again is 0x95.
C13_Witness ==
  /\ codec.op = "reverse_bits_n"
  /\ codec.n = 12
  /\ codec.in = 149
  /\ codec.mid = 2704
  /\ codec.k = 2
  /\ codec.val = 149


\* C11: when every narrow_confirm of a run that began with a confirmed bulk
\* blast is answered "no", the run ends in the fallback resolution: the
\* matched device ids are those of all candidates and the Power button has
\* the first candidate's code; it does not resolve to a single candidate.
C11_AllRejectedEndsInFallback ==
  ( /\ run.st \in {"resolved", "fallback"}
    /\ run.calls >= 1
    /\ run.allno )
  => LET x == sessions[run.sid]
         first == At(x.power_candidates, 0)
     IN /\ run.st = "fallback"
        /\ Elems(x.matched_device_ids) =
             UNION {Elems(x.power_candidates[i].device_ids) :
                      i \in 1 .. Len(x.power_candidates)}
        /\ x.confirmed_buttons # <<>>
        /\ x.confirmed_buttons[Len(x.confirmed_buttons)] = PowerButton(first)


\* _parse_ir_logs has run on the lines collected.
Disambiguated == capture.pc = "done" /\ capture.first_ir

\* Line i is a decoding of one of the twelve protocols.
DecodedAt(i) ==
  LET line == capture.log_lines[i]
  IN /\ line.tag \in DecodedProtocols
     /\ line.g1 # ""
     /\ line.tag \in TwoGroupProtocols => line.g2 # ""

\* Line i is a Pronto observation, of 8 words or more, of fewer.
ProntoAt(i) ==
  capture.log_lines[i].tag = "Pronto" /\ capture.log_lines[i].words # <<>>

LongProntoAt(i) == ProntoAt(i) /\ Len(capture.log_lines[i].words) >= 8

NoiseProntoAt(i) == ProntoAt(i) /\ Len(capture.log_lines[i].words) < 8

\* The lines that count as observations.
Observed == {i \in 1 .. Len(capture.log_lines) : DecodedAt(i) \/ LongProntoAt(i)}

\* The priority classes, most preferred first.
PriorityClasses ==
  << {"NEC"}, {"Samsung", "Samsung36"}, {"Sony"}, {"RC5"}, {"RC6"},
     {"LG", "Panasonic", "Pioneer", "JVC", "Dish", "Coolix"}, {"Pronto"} >>

ClassAt(i) ==
  CHOOSE k \in 1 .. Len(PriorityClasses) :
    capture.log_lines[i].tag \in PriorityClasses[k]

\* The result carries the decoding of line i.
SelectedIs(i) ==
  LET line == capture.log_lines[i]
      r == capture.result
  IN /\ r.success
     /\ r.protocol = line.tag
     /\ r.address = ParseLine(line)[1].address
     /\ r.command = ParseLine(line)[1].command
     /\ r.raw_data = ParseLine(line)[1].raw_data

Tags == [i \in 1 .. Len(capture.log_lines) |-> capture.log_lines[i].tag]

\* C16: the decoding selected is the one of lowest priority number (NEC 1,
\* Samsung and Samsung36 2, Sony 3, RC5 4, RC6 5, LG, Panasonic, Pioneer, JVC,
\* Dish and Coolix 6, Pronto 7) whatever the order of arrival, and among
\* observations of equal priority the first observed; Sony, NEC, RC6
\* selects NEC.
C16_LowestPriorityFirstObserved ==
  (Disambiguated /\ Observed # {}) =>
    /\ \E i \in Observed :
         /\ \A j \in Observed :
              ClassAt(i) < ClassAt(j) \/ (ClassAt(i) = ClassAt(j) /\ i <= j)
         /\ SelectedIs(i)
    /\ (Tags = <<"Sony", "NEC", "RC6">> /\ Observed = {1, 2, 3})
         => capture.result.protocol = "NEC"

\* Samsung36 then Samsung then Sony were observed: Samsung36 is selected.
C16_Witness ==
  /\ Disambiguated
  /\ Tags = <<"Samsung36", "Samsung", "Sony">>
  /\ Observed = {1, 2, 3}
  /\ capture.result.success
  /\ capture.result.protocol = "Samsung36"

\* C17: a Pronto line of fewer than 8 words is not in the parsed list, is
\* not selected and is not the fallback; an NEC decoding with a 3-word
\* Pronto line gives NEC without a fallback.
C17_NoisePronto ==
  Disambiguated =>
    /\ \A i \in 1 .. Len(capture.log_lines) :
         NoiseProntoAt(i) =>
           LET words == capture.log_lines[i].words
           IN /\ \A j \in 1 .. Len(capture.parsed) :
                   capture.parsed[j].raw_data # words
              /\ capture.result.success =>
                   /\ capture.result.raw_data # words
                   /\ capture.result.pronto # words
    /\ ( /\ Len(capture.log_lines) = 2
         /\ DecodedAt(1) /\ capture.log_lines[1].tag = "NEC"
         /\ NoiseProntoAt(2) )
       => /\ capture.result.success
          /\ capture.result.protocol = "NEC"
          /\ capture.result.pronto = NoText

\* An NEC decoding and a 3-word Pronto line: NEC, no fallback.
C17_Witness ==
  /\ Disambiguated
  /\ Len(capture.log_lines) = 2
  /\ DecodedAt(1) /\ capture.log_lines[1].tag = "NEC"
  /\ NoiseProntoAt(2) /\ Len(capture.log_lines[2].words) = 3
  /\ capture.result.success
  /\ capture.result.protocol = "NEC"
  /\ capture.result.pronto = NoText

\* C18: when a Pronto observation of 8 words or more exists, the result's
\* pronto is the payload of the first of them, whether Pronto is selected or
\* not; otherwise a successful result has no pronto.
C18_ProntoFallbackIsFirstLong ==
  (Disambiguated /\ capture.result.success) =>
    LET long == {i \in 1 .. Len(capture.log_lines) : LongProntoAt(i)}
    IN IF long # {}
       THEN \E i \in long :
              /\ \A j \in long : i <= j
              /\ capture.result.pronto = capture.log_lines[i].words
       ELSE capture.result.pronto = NoText

\* The 9-word payload came first, then the 8-word one, then NEC: NEC is
\* selected and the 9-word payload is the fallback.
C18_Witness ==
  /\ Disambiguated
  /\ Len(capture.log_lines) = 3
  /\ LongProntoAt(1) /\ Len(capture.log_lines[1].words) = 9
  /\ LongProntoAt(2) /\ Len(capture.log_lines[2].words) = 8
  /\ capture.result.success
  /\ capture.result.protocol = "NEC"
  /\ capture.result.pronto = capture.log_lines[1].words

\* C19: when no line is an observation (nothing parses, or only Pronto
\* lines of fewer than 8 words match) the result is a failure without a
\* protocol; otherwise it is a success that carries the decoding of exactly
\* one observation.
C19_FailsIffNothingObserved ==
  Disambiguated =>
    IF Observed = {}
    THEN /\ ~capture.result.success
         /\ "protocol" \notin DOMAIN capture.result
    ELSE /\ capture.result.success
         /\ \E i \in Observed : SelectedIs(i)
         /\ \A i, j \in Observed :
              (SelectedIs(i) /\ SelectedIs(j)) =>
                capture.log_lines[i] = capture.log_lines[j]

\* Only a 3-word Pronto line and a line in the wrong letter case arrived:
\* the capture fails.
C19_Witness ==
  /\ Disambiguated
  /\ Len(capture.log_lines) = 2
  /\ NoiseProntoAt(1)
  /\ capture.log_lines[2].tag = "nec"
  /\ ~capture.result.success


\* Request r has a transmission in progress; is in the settle delay of a
\* code it sent.
Transmitting(r) == tx.req[r].pc = "sending"

Settling(r) == tx.req[r].pc = "sleep" /\ tx.req[r].sent

\* C20: transmissions are strictly sequential: at most one transmission is
\* in progress at any time, and no code is being sent while a request is in
\* the settle delay of a code it sent, within one blast and across
\* concurrent requests.
C20_StrictlySequential ==
  \A r1, r2 \in Requests :
    r1 # r2 => ~(Transmitting(r2) /\ (Transmitting(r1) \/ Settling(r1)))


\* C22: a narrow_confirm call that leaves the pool empty, on a session that
\* has power candidates, moves the session to MapButtons; matched_device_ids
\* is the union of the device ids of all power candidates without
\* duplicates, matched_brand is one of their brands, and one Power button
\* with the code of the candidate at index 0 is appended.
C22_EmptyPoolFallsBackToAll ==
  [][\A sid \in DOMAIN sessions :
       ( /\ last'.op = "narrow_confirm"
         /\ last'.sid = sid
         /\ sessions'[sid].narrowing_pool = <<>>
         /\ sessions[sid].power_candidates # <<>> )
       => LET x == sessions[sid]
              y == sessions'[sid]
              cands == x.power_candidates
              ids == UNION {Elems(cands[i].device_ids) : i \in 1 .. Len(cands)}
              brands == UNION {Elems(cands[i].brands) : i \in 1 .. Len(cands)}
          IN /\ last'.res = "ok"
             /\ y.phase = "map_buttons"
             /\ Elems(y.matched_device_ids) = ids
             /\ Len(y.matched_device_ids) = Cardinality(ids)
             /\ IF brands = {} THEN y.matched_brand = ""
                ELSE y.matched_brand \in brands
             /\ y.confirmed_buttons =
                  Append(x.confirmed_buttons, PowerButton(cands[1]))
             /\ y.power_candidates = cands
    ]_vars

\* narrow_confirm has just emptied the pool of a session with two or more
\* candidates, whose device ids are now all matched.
C22_Witness ==
  /\ last.op = "narrow_confirm"
  /\ last.res = "ok"
  /\ last.sid \in DOMAIN sessions
  /\ LET x == sessions[last.sid]
     IN /\ x.narrowing_pool = <<>>
        /\ Len(x.power_candidates) >= 2
        /\ x.phase = "map_buttons"
        /\ Len(x.matched_device_ids) >= 2
        /\ x.confirmed_buttons = <<PowerButton(x.power_candidates[1])>>


\* C23: confirm_power_code(worked=True) in Identify with a candidate at the
\* cursor appends that candidate as the Power button, sets matched_device_ids
\* to its device ids and matched_brand to its first brand, sets the phase to
\* MapButtons and loads the button candidates of those devices, and leaves
\* power_candidates and the cursor as they were.
C23_ConfirmedPowerCode ==
  [][\A sid \in DOMAIN sessions :
       ( /\ last'.op = "confirm_power_code"
         /\ last'.sid = sid
         /\ last'.arg = "yes"
         /\ sessions[sid].phase = "identify"
         /\ HasCurrentCandidate(sessions[sid]) )
       => LET x == sessions[sid]
              y == sessions'[sid]
              candidate == x.power_candidates[x.current_candidate_idx + 1]
          IN /\ last'.res = "ok"
             /\ y.confirmed_buttons =
                  Append(x.confirmed_buttons,
                         ConfirmedButton("Power", candidate.protocol,
                                         candidate.address, candidate.command,
                                         candidate.raw_data))
             /\ y.matched_device_ids = candidate.device_ids
             /\ y.matched_brand =
                  (IF candidate.brands = <<>> THEN "" ELSE candidate.brands[1])
             /\ y.phase = "map_buttons"
             /\ y.button_candidates = ButtonCandidates[candidate.device_ids]
             /\ y.current_button_idx = 0
             /\ y.power_candidates = x.power_candidates
             /\ y.current_candidate_idx = x.current_candidate_idx
    ]_vars

\* The second candidate has just been confirmed: the cursor is still on it.
C23_Witness ==
  /\ last.op = "confirm_power_code"
  /\ last.arg = "yes"
  /\ last.res = "ok"
  /\ last.sid \in DOMAIN sessions
  /\ LET x == sessions[last.sid]
     IN /\ x.phase = "map_buttons"
        /\ x.current_candidate_idx = 1
        /\ Len(x.power_candidates) >= 2
        /\ x.confirmed_buttons = <<PowerButton(x.power_candidates[2])>>
        /\ x.matched_device_ids = x.power_candidates[2].device_ids

\* C24: the identify walk ends.  In Identify on n >= 1 candidates the cursor
\* is below n, and confirm_power_code(worked=False) with the cursor at k
\* moves it to k + 1, staying in Identify while k + 1 < n and going to
\* Results when k + 1 = n; confirmed_buttons and matched_device_ids are not
\* changed, so after n such calls on a fresh walk both are still empty.
C24_IdentifyWalkTerminates ==
  /\ [](\A sid \in DOMAIN sessions :
          (sessions[sid].phase = "identify"
             /\ Len(sessions[sid].power_candidates) >= 1)
          => sessions[sid].current_candidate_idx < Len(sessions[sid].power_candidates))
  /\ [][\A sid \in DOMAIN sessions :
          ( /\ last'.op = "confirm_power_code"
            /\ last'.sid = sid
            /\ last'.arg = "no"
            /\ sessions[sid].phase = "identify"
            /\ Len(sessions[sid].power_candidates) >= 1 )
          => LET x == sessions[sid]
                 y == sessions'[sid]
                 n == Len(x.power_candidates)
             IN /\ y.current_candidate_idx = x.current_candidate_idx + 1
                /\ y.phase = (IF y.current_candidate_idx = n THEN "results"
                              ELSE "identify")
                /\ y.confirmed_buttons = x.confirmed_buttons
                /\ y.matched_device_ids = x.matched_device_ids
                /\ y.power_candidates = x.power_candidates
       ]_vars

\* Every one of two or more candidates has been rejected: Results, with
\* nothing confirmed and nothing matched.
C24_Witness ==
  /\ last.op = "confirm_power_code"
  /\ last.arg = "no"
  /\ last.sid \in DOMAIN sessions
  /\ LET x == sessions[last.sid]
     IN /\ x.phase = "results"
        /\ Len(x.power_candidates) >= 2
        /\ x.current_candidate_idx = Len(x.power_candidates)
        /\ x.confirmed_buttons = <<>>
        /\ x.matched_device_ids = <<>>

\* C25: skip_to_results sets the phase to Results from any phase and changes
\* nothing else of the session.
C25_SkipOnlySetsPhase ==
  [][\A sid \in DOMAIN sessions :
       (last'.op = "skip_to_results" /\ last'.sid = sid)
       => /\ last'.res = "ok"
          /\ sessions'[sid] = [sessions[sid] EXCEPT !.phase = "results"]
    ]_vars

\* skip_to_results has just been called in the middle of a narrowing.
C25_Witness ==
  /\ last.op = "skip_to_results"
  /\ last.sid \in DOMAIN sessions
  /\ LET x == sessions[last.sid]
     IN /\ x.phase = "results"
        /\ Len(x.narrowing_pool) >= 2
        /\ x.narrowing_tested # <<>>
        /\ x.power_candidates # <<>>


\* C26: confirm_button moves the button cursor on by exactly 1 and sets the
\* phase to Results exactly when the cursor reaches the number of button
\* candidates; with worked=True it appends the current button to
\* confirmed_buttons unless a button of that name is already confirmed, and
\* then, as with worked=False, confirmed_buttons is unchanged.
C26_ConfirmButtonSkipsKnownNames ==
  [][\A sid \in DOMAIN sessions :
       (last'.op = "confirm_button" /\ last'.sid = sid)
       => LET x == sessions[sid]
              y == sessions'[sid]
          IN /\ y.current_button_idx = x.current_button_idx + 1
             /\ y.phase = (IF y.current_button_idx >= Len(x.button_candidates)
                           THEN "results" ELSE x.phase)
             /\ y.confirmed_buttons =
                  (IF /\ last'.arg = "yes"
                      /\ HasCurrentButton(x)
                      /\ current_button(x).button_name \notin Names(x.confirmed_buttons)
                   THEN Append(x.confirmed_buttons, ButtonOf(current_button(x)))
                   ELSE x.confirmed_buttons)
    ]_vars

\* Position of a name in the category table (past the end when absent) and
\* in the retrieval order.
TableRank(name) ==
  LET hits == {k \in 1 .. Len(CategoryTargets) :
                 Lower(CategoryTargets[k].target) = Lower(name)}
  IN IF hits = {} THEN Len(CategoryTargets) + 1
     ELSE CHOOSE k \in hits : \A j \in hits : k <= j

RetrievalRank(name) ==
  CHOOSE k \in 1 .. Len(NameOrder) : NameOrder[k] = name

\* C27: after _load_button_candidates the list is ordered by the category
\* table: a button whose name (letter case aside) comes earlier in the table
\* precedes every button whose name comes later; the buttons outside the
\* table follow all table buttons, are tagged "Other" and keep their
\* retrieval order; no button name occurs twice.
C27_ButtonsInCategoryOrder ==
  [][\A sid \in DOMAIN sessions' :
       LET bc == sessions'[sid].button_candidates
       IN (sid \notin DOMAIN sessions
           \/ sessions[sid].button_candidates # bc)
          => \A i, j \in 1 .. Len(bc) :
               /\ i < j => /\ bc[i].button_name # bc[j].button_name
                           /\ TableRank(bc[i].button_name)
                                <= TableRank(bc[j].button_name)
                           /\ TableRank(bc[i].button_name)
                                = TableRank(bc[j].button_name)
                              => RetrievalRank(bc[i].button_name)
                                   < RetrievalRank(bc[j].button_name)
               /\ (bc[i].category = "Other")
                    <=> (TableRank(bc[i].button_name) > Len(CategoryTargets))
    ]_vars

\* A list with two table buttons whose table order differs from their
\* retrieval order, and one with two buttons outside the table.
C27_Witness ==
  \E sid \in DOMAIN sessions :
    LET bc == sessions[sid].button_candidates
    IN /\ Len(bc) = 5
       /\ [i \in 1 .. 5 |-> bc[i].button_name]
            = <<"power_on", "Vol_up", "Mute", "Eject", "Zap">>
       /\ [i \in 1 .. 5 |-> bc[i].category]
            = <<"Power", "Volume", "Volume", "Other", "Other">>

\* C28: button_candidates never holds the power button: no entry is named
\* "Power" or "Power_on" in any letter case.
C28_NoPowerAmongButtons ==
  \A sid \in DOMAIN sessions :
    \A i \in 1 .. Len(sessions[sid].button_candidates) :
      Lower(sessions[sid].button_candidates[i].button_name)
        \notin {"power", "power_on"}

\* The width the converter table gives each Sony variant.
SircWidthOf(protocol) ==
  CASE protocol = "SIRC" -> 12 [] protocol = "SIRC15" -> 15
    [] protocol = "SIRC20" -> 20

\* C29: Sony conversion of a two-byte address and a one-byte command gives,
\* on send_ir_sony, nbits = the variant's width (12, 15 or 20) and data = the
\* nbits-bit reversal of the low nbits bits of (address << 7) | (command &
\* 0x7F), so data < 2^nbits; address 0x01 and command 0x15 at 12 bits give
\* 0xA90.
C29_SircReversedWord ==
  ( /\ codec.op = "convert_code" /\ codec.done
    /\ codec.protocol \in SircProtocols
    /\ Truthy(codec.address) /\ Len(codec.address) >= 2
    /\ IsByteToken(codec.address[1]) /\ IsByteToken(codec.address[2])
    /\ Truthy(codec.command) /\ IsByteToken(codec.command[1]) )
  => LET address == ByteOf(codec.address[1]) + 256 * ByteOf(codec.address[2])
         command == ByteOf(codec.command[1])
         logical == (address * 128) + (command % 128)
         nbits == SircWidthOf(codec.protocol)
         out == codec.out
     IN /\ out.service = "send_ir_sony"
        /\ out.data.nbits = nbits
        /\ out.data.data >= 0 /\ out.data.data < 2 ^ nbits
        /\ \A i \in 0 .. nbits - 1 :
             (out.data.data \div 2 ^ i) % 2
               = (logical \div 2 ^ (nbits - 1 - i)) % 2
        /\ (address = 1 /\ command = 21 /\ nbits = 12) => out.data.data = 2704

\* convert_code("SIRC", "01 00 00 00", "15 00 00 00") has returned 0xA90.
C29_Witness ==
  /\ codec.op = "convert_code" /\ codec.done
  /\ codec.protocol = "SIRC"
  /\ codec.address = <<ByteToken(1), ByteToken(0), ByteToken(0), ByteToken(0)>>
  /\ codec.command = <<ByteToken(21), ByteToken(0), ByteToken(0), ByteToken(0)>>
  /\ codec.out.data = [data |-> 2704, nbits |-> 12]

\* C30: every Sony code (SIRC, SIRC15, SIRC20) sent is transmitted at least
\* 3 times: the converted command carries repeat = 3 for a Sony code and 1
\* for any other, and once the send has returned that many transmissions
\* have been made.
C30_SonyCodesRepeated ==
  \A r \in Requests :
    LET q == tx.req[r]
    IN (q.sent /\ q.pc \in {"sleep", "done"})
       => /\ q.repeat = (IF At(TxCandidates, q.indices[q.k]).protocol
                              \in SircProtocols
                         THEN 3 ELSE 1)
          /\ q.calls >= q.repeat

\* C21: two operations on the same session never interleave: no two
\* requests are inside an engine method on one session at once, and the
\* session a method writes is still the session it read.
C21_OperationsDoNotInterleave ==
  /\ [](\A r1, r2 \in Requests :
          ( /\ r1 # r2
            /\ loop.req[r1].pc = "op" /\ loop.req[r2].pc = "op" )
          => loop.req[r1].sid # loop.req[r2].sid)
  /\ [][\A r \in Requests :
          (loop.req[r].pc = "op" /\ loop'.req[r].pc # "op")
          => loop.req[r].seen[1] = sessions[loop.req[r].sid]
      ]_vars

\* narrow_confirm is inside its engine method on a narrowing session while
\* a second narrow_confirm for the same session waits for the event loop.
C21_Witness ==
  \E r1, r2 \in Requests :
    /\ r1 # r2
    /\ loop.req[r1].handler = "narrow_confirm" /\ loop.req[r1].pc = "op"
    /\ loop.req[r2].handler = "narrow_confirm" /\ loop.req[r2].pc = "ready"
    /\ loop.req[r1].sid = loop.req[r2].sid
    /\ loop.req[r1].seen[1].phase = "narrowing"

\* The byte whose bit i is bit 7 - i of b.
Rev8(b) ==
  LET bit(i) == (b \div 2 ^ i) % 2
  IN 128 * bit(0) + 64 * bit(1) + 32 * bit(2) + 16 * bit(3)
     + 8 * bit(4) + 4 * bit(5) + 2 * bit(6) + bit(7)

\* C31: Samsung32 conversion of a one-byte address a and a one-byte command
\* c gives, on send_ir_samsung, the 32-bit word whose bytes are, from the
\* most significant, rev(a), rev(a), rev(c), 255 - rev(c), rev being 8-bit
\* bit reversal (0x07 gives 0xE0).
C31_Samsung32Frame ==
  ( /\ Converted("Samsung32")
    /\ Truthy(codec.address) /\ IsByteToken(codec.address[1])
    /\ Truthy(codec.command) /\ IsByteToken(codec.command[1]) )
  => LET a == ByteOf(codec.address[1])
         c == ByteOf(codec.command[1])
         out == codec.out
     IN /\ out.service = "send_ir_samsung"
        /\ out.data.data.hi \div 256 = Rev8(a)
        /\ out.data.data.hi % 256 = Rev8(a)
        /\ out.data.data.lo \div 256 = Rev8(c)
        /\ out.data.data.lo % 256 = 255 - Rev8(c)
        /\ a = 7 => out.data.data.hi = 224 * 256 + 224

\* convert_code("Samsung32", "07 00", "02 00") has returned 0xE0E040BF.
C31_Witness ==
  /\ Converted("Samsung32")
  /\ codec.address = <<ByteToken(7), ByteToken(0)>>
  /\ codec.command = <<ByteToken(2), ByteToken(0)>>
  /\ codec.out.data.data = [hi |-> 57568, lo |-> 16575]

\* C32: for JVC the address is ignored: whatever the address, absent or
\* not, convert_code("JVC", address, command) returns send_ir_jvc with data =
\* the little-endian integer of the command bytes.
C32_JvcIgnoresAddress ==
  ( /\ Converted("JVC")
    /\ Truthy(codec.command) /\ Len(codec.command) <= 2
    /\ \A i \in 1 .. Len(codec.command) : IsHex(codec.command[i]) )
  => /\ codec.out # NoCommand
     /\ codec.out.service = "send_ir_jvc"
     /\ codec.out.data.data =
          IntHex(codec.command[1])
          + (IF Len(codec.command) = 2 THEN 256 * IntHex(codec.command[2]) ELSE 0)

\* C33: listen_for_ir fails without parsing when no line with a known
\* "Received <protocol>:" prefix arrives before the timeout; otherwise it
\* parses exactly the lines logged from the subscription to the end of the
\* quiet period; either way the subscription is released exactly once, and
\* never before the call ends.
C33_CaptureWindow ==
  LET matched == \E i \in 1 .. Len(capture.log_lines) :
                   ir_pattern(capture.log_lines[i])
  IN /\ capture.first_ir <=> matched
     /\ capture.pc \in {"waiting", "collecting"}
          => capture.subscribed /\ capture.unsubs = 0
     /\ capture.pc = "collecting" => matched
     /\ capture.pc = "done"
          => /\ ~capture.subscribed /\ capture.unsubs = 1
             /\ IF matched
                THEN /\ capture.parsed = ParseLines(capture.log_lines)
                     /\ capture.result = parse_ir_logs(capture.log_lines)
                ELSE /\ capture.parsed = <<>>
                     /\ capture.result =
                          [success |-> FALSE,
                           error |-> "No IR signal detected within timeout."]

\* A call has ended with three lines parsed, the first of them logged
\* before the first line with a known prefix.
C33_Witness ==
  /\ capture.pc = "done"
  /\ Len(capture.log_lines) = 3
  /\ ~ir_pattern(capture.log_lines[1])
  /\ ir_pattern(capture.log_lines[2])
  /\ capture.result.success
  /\ capture.unsubs = 1

\* C34: in a blast a code that cannot be converted, or whose send fails, is
\* skipped without aborting: the codes the blast has come to are always the
\* first of its list, in list order, and when the blast has ended they are
\* the whole list, each sent (or skipped) exactly once.
C34_BlastSkipsFailures ==
  \A r \in Requests :
    LET q == tx.req[r]
    IN q.kind \in Blasts
       => /\ Len(q.log) <= Len(q.indices)
          /\ \A i \in 1 .. Len(q.log) : q.log[i].idx = q.indices[i]
          /\ q.pc = "done" => Len(q.log) = Len(q.indices)

\* C35: a send that fails in the transport is surfaced and not retried:
\* each send calls the transmitter service at most once, and a request one
\* of whose sends failed does not answer as it does when its codes were
\* sent.
C35_FailuresSurfaced ==
  \A r \in Requests :
    LET q == tx.req[r]
    IN /\ q.calls <= 1
       /\ ( /\ q.pc = "done"
            /\ \E i \in 1 .. Len(q.log) : q.log[i].out = "failed" )
          => q.response # Answered(q.kind)

\* The narrowing state of session x is well formed: the pool is a strictly
\* increasing list of two or more indices of power candidates and the
\* tested subset is its first half, rounded down.
HalvedPool(x) ==
  LET pool == x.narrowing_pool
  IN /\ Len(pool) >= 2
     /\ \A i \in 1 .. Len(pool) : 0 <= pool[i] /\ pool[i] < Len(x.power_candidates)
     /\ \A i \in 1 .. Len(pool) - 1 : pool[i] < pool[i + 1]
     /\ x.narrowing_tested = SubSeq(pool, 1, Len(pool) \div 2)
     /\ x.narrowing_tested # <<>>
     /\ x.narrowing_tested # pool

\* C36: in every state with phase Narrowing reached through
\* confirm_bulk_blast, narrowing_pool is a strictly increasing list of at
\* least 2 valid candidate indices and narrowing_tested its first
\* floor(|pool| / 2) elements, a non-empty proper prefix; no narrow_confirm
\* answer given in such a state empties the pool.
C36_NarrowingPoolHalved ==
  /\ [](\A sid \in DOMAIN sessions :
          (sessions[sid].phase = "narrowing" /\ run.sid = sid /\ run.st = "narrowing")
          => HalvedPool(sessions[sid]))
  /\ [][\A sid \in DOMAIN sessions :
          ( /\ sessions[sid].phase = "narrowing"
            /\ run.sid = sid /\ run.st = "narrowing"
            /\ last'.op = "narrow_confirm" /\ last'.sid = sid )
          => sessions'[sid].narrowing_pool # <<>>
      ]_vars

\* Three of five candidates are left after a "no" in a narrowing started by
\* confirm_bulk_blast, and the first of them is tested next.
C36_Witness ==
  \E sid \in DOMAIN sessions :
    /\ sessions[sid].phase = "narrowing"
    /\ run.sid = sid /\ run.st = "narrowing" /\ run.calls = 1
    /\ sessions[sid].narrowing_pool = <<2, 3, 4>>
    /\ sessions[sid].narrowing_tested = <<2>>

\* max(1, ceil(log2 n)): the least k >= 1 with 2^k >= n.
RoundsFor(n) == CHOOSE k \in 1 .. n + 1 : 2 ^ k >= n /\ (k = 1 \/ 2 ^ (k - 1) < n)

\* C37: whatever the answers, in every state with phase Narrowing the
\* progress counter is within its total: 1 <= narrowing_round <=
\* narrowing_total_rounds, and the total is max(1, ceil(log2 n)) for n power
\* candidates.
C37_RoundWithinTotal ==
  \A sid \in DOMAIN sessions :
    sessions[sid].phase = "narrowing"
    => LET x == sessions[sid]
       IN /\ narrowing_total_rounds(x) = RoundsFor(Len(x.power_candidates))
          /\ 1 <= x.narrowing_round
          /\ x.narrowing_round <= RoundsFor(Len(x.power_candidates))

\* Five candidates and two "no" answers: round 3 of 3.
C37_Witness ==
  \E sid \in DOMAIN sessions :
    /\ sessions[sid].phase = "narrowing"
    /\ Len(sessions[sid].power_candidates) = 5
    /\ sessions[sid].narrowing_round = 3
    /\ run.sid = sid /\ run.allno /\ run.calls = 2

\* C38: in every state with phase Identify the cursor is the index of a
\* power candidate, 0 <= current_candidate_idx < len(power_candidates), and
\* a "yes" to confirm_power_code or confirm_bulk_blast given in that phase
\* finds its candidate (the call does not raise).
C38_IdentifyHasCandidate ==
  /\ [](\A sid \in DOMAIN sessions :
          sessions[sid].phase = "identify"
          => /\ 0 <= sessions[sid].current_candidate_idx
             /\ sessions[sid].current_candidate_idx
                  < Len(sessions[sid].power_candidates))
  /\ [][\A sid \in DOMAIN sessions :
          ( /\ sessions[sid].phase = "identify"
            /\ last'.op \in {"confirm_power_code", "confirm_bulk_blast"}
            /\ last'.sid = sid /\ last'.arg = "yes" )
          => last'.res = "ok"
      ]_vars

\* The characters of the hexadecimal texts the NEC lines carry.
Spell(text) ==
  CASE text = "FB04" -> <<"F", "B", "0", "4">>
    [] text = "F708" -> <<"F", "7", "0", "8">>
    [] text = "1234" -> <<"1", "2", "3", "4">>
    [] text = "5678" -> <<"5", "6", "7", "8">>

\* A field of the capture result as the form of /learn/save hands it to
\* convert_code: None stays None, a text is one token.
SavedField(field) == IF field = NoText THEN NoStr ELSE <<Spell(field[1])>>

\* The command learn_save gets from convert_code for a capture result.
ReplayOf(result) ==
  convert_code(result.protocol, SavedField(result.address),
               SavedField(result.command), NoStr)

\* C39: when listen_for_ir returns an NEC observation logged with address A
\* and command C, convert_code on the returned protocol, address and command
\* gives a send_ir_nec command with address A and command C.
C39_NecRoundTrip ==
  ( /\ capture.pc = "done"
    /\ capture.result.success
    /\ capture.result.protocol = "NEC" )
  => /\ ReplayOf(capture.result).service = "send_ir_nec"
     /\ ReplayOf(capture.result).data.address
          = IntHex(Spell(capture.result.address[1]))
     /\ ReplayOf(capture.result).data.command
          = IntHex(Spell(capture.result.command[1]))

\* C40: while the blast of a request for a session is still in progress, no
\* step changes that session's narrowing_pool or narrowing_tested, so every
\* answer is applied to the subset that was last blasted in full.
C40_NoAnswerDuringBlast ==
  [][\A r \in Requests :
       ( /\ loop.req[r].pc = "blast"
         /\ loop.req[r].sid \in DOMAIN sessions
         /\ loop.req[r].sid \in DOMAIN sessions' )
       => /\ sessions'[loop.req[r].sid].narrowing_pool
               = sessions[loop.req[r].sid].narrowing_pool
          /\ sessions'[loop.req[r].sid].narrowing_tested
               = sessions[loop.req[r].sid].narrowing_tested
    ]_vars
====
